---- MODULE Spec2Model ----
(***************************************************************************)
(* A model of factorio-llm-docs: the generator                             *)
(* (tools/factorio-api-docs-to-llm.ts) that renders Markdown pages and     *)
(* appends chunk records, and the retrieval CLI (tools/search.ts) with its *)
(* versions, search, get and open commands.                                *)
(*                                                                         *)
(* JavaScript strings are TLA+ strings; positions are 1-based, and 0 is    *)
(* the "not found" result of indexOf (-1 in the source).  A Markdown text  *)
(* that the source builds from pieces that all end in "\n" is a sequence   *)
(* of lines.                                                               *)
(***************************************************************************)
EXTENDS Integers, Sequences, FiniteSets, TLC

(***************************************************************************)
(* Bounds of the model.                                                    *)
(***************************************************************************)
MaxClasses == 1
MaxMembers == 1
MaxItems == 1
MaxChunks == 2
MaxLimit == 2
MaxDirs == 3

(***************************************************************************)
(* String helpers (String.prototype.* as used by the source).              *)
(***************************************************************************)
Null == "<null>"

Char(s, i) == SubSeq(s, i, i)

IsWs(c) == c \in {" ", "\t", "\n", "\r"}

IsDigit(c) == c \in {"0", "1", "2", "3", "4", "5", "6", "7", "8", "9"}

LowerMap ==
  [c \in {"A", "B", "C", "D", "E", "F", "G", "H", "I", "J", "K", "L", "M",
          "N", "O", "P", "Q", "R", "S", "T", "U", "V", "W", "X", "Y", "Z"} |->
     CASE c = "A" -> "a" [] c = "B" -> "b" [] c = "C" -> "c" [] c = "D" -> "d"
       [] c = "E" -> "e" [] c = "F" -> "f" [] c = "G" -> "g" [] c = "H" -> "h"
       [] c = "I" -> "i" [] c = "J" -> "j" [] c = "K" -> "k" [] c = "L" -> "l"
       [] c = "M" -> "m" [] c = "N" -> "n" [] c = "O" -> "o" [] c = "P" -> "p"
       [] c = "Q" -> "q" [] c = "R" -> "r" [] c = "S" -> "s" [] c = "T" -> "t"
       [] c = "U" -> "u" [] c = "V" -> "v" [] c = "W" -> "w" [] c = "X" -> "x"
       [] c = "Y" -> "y" [] c = "Z" -> "z"]

\* Every character by itself; the text is halved so that a long text does
\* not nest deeply.
RECURSIVE toLowerCase(_)
toLowerCase(s) ==
  IF s = "" THEN ""
  ELSE IF Len(s) = 1 THEN (IF s \in DOMAIN LowerMap THEN LowerMap[s] ELSE s)
  ELSE toLowerCase(SubSeq(s, 1, Len(s) \div 2))
         \o toLowerCase(SubSeq(s, (Len(s) \div 2) + 1, Len(s)))

RECURSIVE trimStart(_)
trimStart(s) == IF s # "" /\ IsWs(Head(s)) THEN trimStart(Tail(s)) ELSE s

RECURSIVE trimEnd(_)
trimEnd(s) ==
  IF s # "" /\ IsWs(Char(s, Len(s))) THEN trimEnd(SubSeq(s, 1, Len(s) - 1)) ELSE s

trim(s) == trimEnd(trimStart(s))

startsWith(s, p) == Len(p) <= Len(s) /\ SubSeq(s, 1, Len(p)) = p

endsWith(s, p) == Len(p) <= Len(s) /\ SubSeq(s, Len(s) - Len(p) + 1, Len(s)) = p

\* haystack.indexOf(needle, from): the least position >= from, 0 when none.
indexOfFrom(h, n, from) ==
  LET least(found) ==
        IF found = {} THEN 0 ELSE CHOOSE i \in found : \A j \in found : i <= j
  IN least({i \in from..(Len(h) - Len(n) + 1) : SubSeq(h, i, i + Len(n) - 1) = n})

indexOf(h, n) == indexOfFrom(h, n, 1)

includes(h, n) == indexOf(h, n) # 0

\* s.split(sep) for a one-character separator.
RECURSIVE splitAcc(_, _, _)
splitAcc(s, sep, cur) ==
  IF s = "" THEN <<cur>>
  ELSE IF Head(s) = sep THEN <<cur>> \o splitAcc(Tail(s), sep, "")
  ELSE splitAcc(Tail(s), sep, cur \o Head(s))

split(s, sep) == splitAcc(s, sep, "")

RECURSIVE join(_, _)
join(parts, sep) ==
  IF Len(parts) = 0 THEN ""
  ELSE IF Len(parts) = 1 THEN parts[1]
  ELSE parts[1] \o sep \o join(Tail(parts), sep)

\* String.prototype.localeCompare for the characters of the model: the
\* collation order puts whitespace and punctuation before digits before
\* letters, compares letters without case first, and at a tie puts the
\* lower-case letter first.
CollationOrder ==
  " _-,:.()/#0123456789abcdefghijklmnopqrstuvwxyz"

CollationRank(c) == indexOf(CollationOrder, toLowerCase(c))

RECURSIVE comparePrimary(_, _)
comparePrimary(a, b) ==
  IF a = "" /\ b = "" THEN 0
  ELSE IF a = "" THEN -1
  ELSE IF b = "" THEN 1
  ELSE IF CollationRank(Head(a)) # CollationRank(Head(b))
    THEN (IF CollationRank(Head(a)) < CollationRank(Head(b)) THEN -1 ELSE 1)
  ELSE comparePrimary(Tail(a), Tail(b))

RECURSIVE compareCase(_, _)
compareCase(a, b) ==
  IF a = "" \/ b = "" THEN 0
  ELSE IF Head(a) # Head(b)
    THEN (IF Head(a) = toLowerCase(Head(a)) THEN -1 ELSE 1)
  ELSE compareCase(Tail(a), Tail(b))

localeCompare(a, b) ==
  IF comparePrimary(a, b) # 0 THEN comparePrimary(a, b) ELSE compareCase(a, b)

\* The order of the UTF-16 code units, for the characters the model uses.
CodeUnitOrder ==
  " #(),-./0123456789:ABCDEFGHIJKLMNOPQRSTUVWXYZ_abcdefghijklmnopqrstuvwxyz"

\* The comparison of Array.prototype.sort() without a comparator.
RECURSIVE compareCodeUnits(_, _)
compareCodeUnits(a, b) ==
  IF a = "" /\ b = "" THEN 0
  ELSE IF a = "" THEN -1
  ELSE IF b = "" THEN 1
  ELSE IF Head(a) # Head(b)
    THEN (IF indexOf(CodeUnitOrder, Head(a)) < indexOf(CodeUnitOrder, Head(b)) THEN -1 ELSE 1)
  ELSE compareCodeUnits(Tail(a), Tail(b))

Range(s) == {s[i] : i \in 1..Len(s)}

\* All sequences over S of length at most n.
SeqsUpTo(S, n) == UNION {[1..k -> S] : k \in 0..n}

Min(a, b) == IF a < b THEN a ELSE b

Max(a, b) == IF a > b THEN a ELSE b

(***************************************************************************)
(* State.                                                                  *)
(*                                                                         *)
(* The generator process: its arguments and the files it finds, its        *)
(* position in main(), the catalog (resolverMap), the chunk stream, the    *)
(* files written under the version directory, the counters, the exit code. *)
(*                                                                         *)
(* The retrieval process: the command and its flags, the directory         *)
(* entries of the docs root, the selected version directory (chunks.jsonl, *)
(* the Markdown files, symbols.json), its position, the hit list, what it  *)
(* printed and its exit code.                                              *)
(***************************************************************************)
VARIABLES args, runtimeObj, prototypeObj, auxiliaryDir, auxiliaryBasenames, outDisk,
          phase, idx, resolverMap, chunksStream, streamState, stats, genStdout, genStderr,
          genExit,
          argv, parsed,
          cmd, flags, positional, entries, chunksJsonl, mdFiles, symbols,
          pc, pos, hits, stdout, stderr, exitCode,
          extractMarkdown, extractAnchor, slugCounts, extractOut, htmlOut,
          linkMd, linkFrom, linkTarget, linkResolved, linkConverted

genVars == <<args, runtimeObj, prototypeObj, auxiliaryDir, auxiliaryBasenames, outDisk,
             phase, idx, resolverMap, chunksStream, streamState, stats, genStdout,
             genStderr, genExit>>

cliVars == <<argv, parsed, cmd, flags, positional, entries, chunksJsonl, mdFiles,
             symbols, pc, pos, hits, stdout, stderr, exitCode>>

\* One call of extractMarkdownSectionByAnchor after another on one page, and
\* the HTML that mdToHtml makes of the page.
extractVars == <<extractMarkdown, extractAnchor, slugCounts, extractOut, htmlOut>>

\* One text handed to the resolver and to the two link converters.
linkVars == <<linkMd, linkFrom, linkTarget, linkResolved, linkConverted>>

vars == <<genVars, cliVars, extractVars, linkVars>>

(***************************************************************************)
(* tools/search.ts: pure functions.                                        *)
(***************************************************************************)
\* (value ?? "").split(",").map(trim).filter(Boolean)
parseCsvFlag(value) ==
  LET parts == split(IF value = Null THEN "" ELSE value, ",")
      trimmed == [i \in 1..Len(parts) |-> trim(parts[i])]
  IN SelectSeq(trimmed, LAMBDA x : x # "")

normalizeFilterValue(value) == toLowerCase(trim(value))

filterSet(value) == {normalizeFilterValue(x) : x \in Range(parseCsvFlag(value))}

DigitVal(c) ==
  CASE c = "0" -> 0 [] c = "1" -> 1 [] c = "2" -> 2 [] c = "3" -> 3 [] c = "4" -> 4
    [] c = "5" -> 5 [] c = "6" -> 6 [] c = "7" -> 7 [] c = "8" -> 8 [] c = "9" -> 9

\* Number(p) for a string of decimal digits.
RECURSIVE NumberOfDigits(_, _)
NumberOfDigits(p, acc) ==
  IF p = "" THEN acc ELSE NumberOfDigits(Tail(p), 10 * acc + DigitVal(Head(p)))

Number(p) == NumberOfDigits(p, 0)

AllDigits(p) == p # "" /\ \A i \in 1..Len(p) : IsDigit(Char(p, i))

\* /^\d+\.\d+\.\d+$/.test(name)
isVersionName(name) ==
  LET parts == split(name, ".")
  IN Len(parts) = 3 /\ \A i \in 1..3 : AllDigits(parts[i])

\* The comparator's result: negative, zero or positive.
RECURSIVE compareParts(_, _, _)
compareParts(pa, pb, i) ==
  IF i > Max(Len(pa), Len(pb)) THEN 0
  ELSE LET da == IF i <= Len(pa) THEN Number(pa[i]) ELSE 0
           db == IF i <= Len(pb) THEN Number(pb[i]) ELSE 0
       IN IF da # db THEN da - db ELSE compareParts(pa, pb, i + 1)

\* A comparator that orders the names as strings.
compareVersionsAsStrings(a, b) == localeCompare(a, b)

compareVersions(a, b) == compareParts(split(a, "."), split(b, "."), 1)

\* Array.prototype.sort is stable: x goes after every element it does not
\* precede.
RECURSIVE insertVersion(_, _)
insertVersion(sorted, x) ==
  IF Len(sorted) = 0 THEN <<x>>
  ELSE IF compareVersions(x, Head(sorted)) < 0 THEN <<x>> \o sorted
  ELSE <<Head(sorted)>> \o insertVersion(Tail(sorted), x)

RECURSIVE sortVersions(_)
sortVersions(names) ==
  IF Len(names) = 0 THEN <<>>
  ELSE insertVersion(sortVersions(SubSeq(names, 1, Len(names) - 1)), names[Len(names)])

listVersions(dirents) ==
  LET kept == SelectSeq(dirents, LAMBDA e : e.isDirectory /\ isVersionName(e.name))
  IN sortVersions([i \in 1..Len(kept) |-> kept[i].name])

RECURSIVE countFrom(_, _, _, _)
countFrom(haystack, needle, i, count) ==
  LET found == indexOfFrom(haystack, needle, i)
  IN IF found = 0 THEN count
     ELSE countFrom(haystack, needle, found + Len(needle), count + 1)

countOccurrences(haystack, needle) ==
  IF needle = "" THEN 0 ELSE countFrom(haystack, needle, 1, 0)

\* text.replace(/\s+/g, " "): a white space character becomes a space when
\* the character before it is none (inWs), and nothing otherwise.  The text is
\* halved so that a long text does not nest deeply.
RECURSIVE collapseWs(_, _)
collapseWs(s, inWs) ==
  IF s = "" THEN ""
  ELSE IF Len(s) = 1 THEN (IF IsWs(s) THEN (IF inWs THEN "" ELSE " ") ELSE s)
  ELSE collapseWs(SubSeq(s, 1, Len(s) \div 2), inWs)
         \o collapseWs(SubSeq(s, (Len(s) \div 2) + 1, Len(s)),
                       IsWs(Char(s, Len(s) \div 2)))

\* U+2026, which a TLA+ string cannot hold, is written as one "~".
Ellipsis == "~"

SnippetBefore == 60
SnippetAfter == 120
SnippetFallback == 140

\* found is the 1-based position of the first occurrence (idx + 1).
makeSnippet(text, found, queryLen) ==
  LET clean == trim(collapseWs(text, FALSE))
      i == Max(0, Min(found - 1, Len(clean)))
      start == Max(0, i - SnippetBefore)
      end == Min(Len(clean), i + queryLen + SnippetAfter)
  IN (IF start > 0 THEN Ellipsis ELSE "") \o SubSeq(clean, start + 1, end)
       \o (IF end < Len(clean) THEN Ellipsis ELSE "")

looksLikeChunkId(s) ==
  \E i \in 1..Len(s) :
    /\ Char(s, i) = "/"
    /\ i < Len(s)
    /\ isVersionName(SubSeq(s, 1, i - 1))

\* The punctuation that githubSlugBase deletes (the backquote, which a TLA+
\* string cannot hold, is written "^" throughout the model and is in the set).
SlugPunctuation ==
  {"~", "!", "@", "#", "$", "%", "^", "&", "*", "(", ")", "+", "=", "{", "}",
   "[", "]", "|", "\\", ":", ";", "\"", "'", "<", ">", ",", ".", "?", "/"}

RECURSIVE removePunctuation(_)
removePunctuation(s) ==
  IF s = "" THEN ""
  ELSE (IF Head(s) \in SlugPunctuation THEN "" ELSE Head(s))
         \o removePunctuation(Tail(s))

\* .replace(/\s+/g, "-").replace(/-+/g, "-")
RECURSIVE hyphenate(_, _)
hyphenate(s, afterHyphen) ==
  IF s = "" THEN ""
  ELSE IF IsWs(Head(s)) \/ Head(s) = "-"
    THEN (IF afterHyphen THEN "" ELSE "-") \o hyphenate(Tail(s), TRUE)
  ELSE Head(s) \o hyphenate(Tail(s), FALSE)

\* .replace(/^-|-$/g, "")
stripEdgeHyphens(s) ==
  LET a == IF startsWith(s, "-") THEN Tail(s) ELSE s
  IN IF endsWith(a, "-") THEN SubSeq(a, 1, Len(a) - 1) ELSE a

githubSlugBase(input) ==
  stripEdgeHyphens(hyphenate(removePunctuation(toLowerCase(trim(input))), FALSE))

\* markdown.replace(/\r\n?/g, "\n")
RECURSIVE normalizeNewlines(_)
normalizeNewlines(s) ==
  IF s = "" THEN ""
  ELSE IF Head(s) = "\r"
    THEN "\n" \o normalizeNewlines(IF startsWith(Tail(s), "\n") THEN Tail(Tail(s))
                                     ELSE Tail(s))
  ELSE Head(s) \o normalizeNewlines(Tail(s))

RECURSIVE countHashes(_)
countHashes(line) ==
  IF line # "" /\ Head(line) = "#" THEN 1 + countHashes(Tail(line)) ELSE 0

MaxHeadingLevel == 6

\* /^(#{1,6})\s+/ : the level of a heading line, 0 when the line is none.
headingPrefixLevel(line) ==
  LET k == countHashes(line)
  IN IF k >= 1 /\ k <= MaxHeadingLevel /\ Len(line) > k /\ IsWs(Char(line, k + 1))
       THEN k ELSE 0

\* /^(#{1,6})\s+(.+?)\s*$/ : needs one more character after the whitespace.
headingLevel(line) ==
  IF headingPrefixLevel(line) > 0 /\ Len(line) >= headingPrefixLevel(line) + 2
    THEN headingPrefixLevel(line) ELSE 0

headingText(line) == trim(SubSeq(line, headingPrefixLevel(line) + 1, Len(line)))

\* The first loop from line i on with the Map slugCounts: the index of the
\* matching heading (0 when none) and the Map as the loop leaves it.
RECURSIVE scanHeadings(_, _, _, _)
scanHeadings(lines, anchorTrimmed, i, counts) ==
  IF i > Len(lines) THEN [startIdx |-> 0, slugCounts |-> counts]
  ELSE IF headingLevel(lines[i]) = 0
    THEN scanHeadings(lines, anchorTrimmed, i + 1, counts)
  ELSE LET get(base) == IF base \in DOMAIN counts THEN counts[base] ELSE 0
           set(base, nextCount) ==
             [b \in DOMAIN counts \cup {base} |->
                IF b = base THEN nextCount ELSE counts[b]]
           slugOf(base, nextCount) ==
             IF base = "" THEN ""
             ELSE IF nextCount = 1 THEN base
             ELSE base \o "-" \o ToString(nextCount - 1)
           read(heading, base, nextCount) ==
             IF heading = anchorTrimmed \/ slugOf(base, nextCount) = anchorTrimmed
               THEN [startIdx |-> i, slugCounts |-> set(base, nextCount)]
             ELSE scanHeadings(lines, anchorTrimmed, i + 1, set(base, nextCount))
           count(heading, base) == read(heading, base, get(base) + 1)
           slugify(heading) == count(heading, githubSlugBase(heading))
       IN slugify(headingText(lines[i]))

\* The second loop with < in place of <=.
RECURSIVE findEndBelow(_, _, _)
findEndBelow(lines, startLevel, i) ==
  IF i > Len(lines) THEN Len(lines) + 1
  ELSE IF headingPrefixLevel(lines[i]) > 0 /\ headingPrefixLevel(lines[i]) < startLevel
    THEN i
  ELSE findEndBelow(lines, startLevel, i + 1)

RECURSIVE findEnd(_, _, _)
findEnd(lines, startLevel, i) ==
  IF i > Len(lines) THEN Len(lines) + 1
  ELSE IF headingPrefixLevel(lines[i]) > 0 /\ headingPrefixLevel(lines[i]) <= startLevel
    THEN i
  ELSE findEnd(lines, startLevel, i + 1)

\* One call that finds the Map slugCounts as given: the section text or Null,
\* and the Map at the return.
extractWithCounts(markdown, anchor, counts) ==
  LET section(lines, startIdx, endIdx) ==
        trimEnd(join(SubSeq(lines, startIdx, endIdx - 1), "\n"))
      result(out, map) ==
        [out |-> IF Len(out) > 0 THEN out \o "\n" ELSE Null, slugCounts |-> map]
      cut(lines, scan) ==
        IF scan.startIdx = 0 THEN [out |-> Null, slugCounts |-> scan.slugCounts]
        ELSE result(section(lines, scan.startIdx,
                            findEnd(lines, headingLevel(lines[scan.startIdx]),
                                    scan.startIdx + 1)),
                    scan.slugCounts)
      find(lines, anchorTrimmed) ==
        IF anchorTrimmed = "" THEN [out |-> Null, slugCounts |-> counts]
        ELSE cut(lines, scanHeadings(lines, anchorTrimmed, 1, counts))
  IN find(split(normalizeNewlines(markdown), "\n"), trim(anchor))

\* The section text, or Null: slugCounts is a new Map in every call.
extractMarkdownSectionByAnchor(markdown, anchor) ==
  extractWithCounts(markdown, anchor, <<>>).out

\* writeStdout: what reaches the standard output.
withNewline(text) == IF endsWith(text, "\n") THEN text ELSE text \o "\n"

(***************************************************************************)
(* tools/search.ts: main().                                                *)
(***************************************************************************)
IdWeight == 20
NameWeight == 10
MemberWeight == 8
TextWeight == 2
OccurrenceCap == 20

\* The first error of the part of main() that every command but versions
\* runs before its own case, or Null.
preludeError(f, dirents) ==
  IF Len(listVersions(dirents)) = 0 THEN "No versions found"
  ELSE IF f.version # Null /\ \A i \in 1..Len(dirents) : dirents[i].name # f.version
    THEN "Version not found"
  ELSE IF f.limit <= 0 THEN "Invalid --limit"
  ELSE Null

passesFiltersWithoutMember(chunk, f) ==
  /\ filterSet(f.stage) # {} => toLowerCase(chunk.stage) \in filterSet(f.stage)
  /\ filterSet(f.kind) # {} => toLowerCase(chunk.kind) \in filterSet(f.kind)
  /\ filterSet(f.name) # {} => toLowerCase(chunk.name) \in filterSet(f.name)

passesFilters(chunk, f) ==
  LET memberLower == IF chunk.member = Null THEN "" ELSE toLowerCase(chunk.member)
  IN /\ filterSet(f.stage) # {} => toLowerCase(chunk.stage) \in filterSet(f.stage)
     /\ filterSet(f.kind) # {} => toLowerCase(chunk.kind) \in filterSet(f.kind)
     /\ filterSet(f.name) # {} => toLowerCase(chunk.name) \in filterSet(f.name)
     /\ filterSet(f.member) # {} => memberLower \in filterSet(f.member)

scoreOfNameFirst(chunk, q) ==
  LET memberLower == IF chunk.member = Null THEN "" ELSE toLowerCase(chunk.member)
      textLower == toLowerCase(chunk.text)
  IN (IF includes(toLowerCase(chunk.id), q) THEN NameWeight ELSE 0)
     + (IF includes(toLowerCase(chunk.name), q) THEN IdWeight ELSE 0)
     + (IF includes(memberLower, q) THEN MemberWeight ELSE 0)
     + (IF indexOf(textLower, q) # 0
          THEN Min(OccurrenceCap, countOccurrences(textLower, q)) * TextWeight ELSE 0)

scoreOf(chunk, q) ==
  LET memberLower == IF chunk.member = Null THEN "" ELSE toLowerCase(chunk.member)
      textLower == toLowerCase(chunk.text)
  IN (IF includes(toLowerCase(chunk.id), q) THEN IdWeight ELSE 0)
     + (IF includes(toLowerCase(chunk.name), q) THEN NameWeight ELSE 0)
     + (IF includes(memberLower, q) THEN MemberWeight ELSE 0)
     + (IF indexOf(textLower, q) # 0
          THEN Min(OccurrenceCap, countOccurrences(textLower, q)) * TextWeight ELSE 0)

hitOf(chunk, q) ==
  LET found == indexOf(toLowerCase(chunk.text), q)
  IN [score |-> scoreOf(chunk, q), id |-> chunk.id, stage |-> chunk.stage,
      kind |-> chunk.kind, name |-> chunk.name, member |-> chunk.member,
      relPath |-> chunk.relPath, anchor |-> chunk.anchor,
      snippet |-> IF found # 0 THEN makeSnippet(chunk.text, found, Len(q))
                  ELSE SubSeq(collapseWs(chunk.text, FALSE), 1,
                              Min(SnippetFallback, Len(collapseWs(chunk.text, FALSE))))]

\* (a, b) => b.score - a.score || a.id.localeCompare(b.id)
compareHits(a, b) ==
  IF b.score - a.score # 0 THEN b.score - a.score ELSE localeCompare(a.id, b.id)

RECURSIVE insertHit(_, _)
insertHit(sorted, x) ==
  IF Len(sorted) = 0 THEN <<x>>
  ELSE IF compareHits(x, Head(sorted)) < 0 THEN <<x>> \o sorted
  ELSE <<Head(sorted)>> \o insertHit(Tail(sorted), x)

RECURSIVE sortHits(_)
sortHits(list) ==
  IF Len(list) = 0 THEN <<>>
  ELSE insertHit(sortHits(SubSeq(list, 1, Len(list) - 1)), list[Len(list)])

truncate(list, limit) == IF Len(list) > limit THEN SubSeq(list, 1, limit) ELSE list

\* A full list drops the new hit without comparing it.
pushFullDrops(list, h, limit) ==
  IF Len(list) >= limit THEN list ELSE sortHits(Append(list, h))

\* hits.push(h); hits.sort(...); if (hits.length > limit) hits.length = limit
pushSortTruncate(list, h, limit) == truncate(sortHits(Append(list, h)), limit)

\* The position of the last decodable line whose id is the argument.
findLastById(lines, id) ==
  LET found == {i \in 1..Len(lines) : lines[i].valid /\ lines[i].id = id}
  IN IF found = {} THEN 0 ELSE CHOOSE i \in found : \A j \in found : j <= i

\* The position of the first line whose id is the argument, decodable or not.
findAnyLineById(lines, id) ==
  LET found == {i \in 1..Len(lines) : lines[i].id = id}
  IN IF found = {} THEN 0 ELSE CHOOSE i \in found : \A j \in found : i <= j

\* The position of the first decodable line whose id is the argument, 0 when
\* there is none (the source returns the record, or null).
findChunkById(lines, id) ==
  LET found == {i \in 1..Len(lines) : lines[i].valid /\ lines[i].id = id}
  IN IF found = {} THEN 0 ELSE CHOOSE i \in found : \A j \in found : i <= j

parseRelPathAndAnchor(s) ==
  LET hashIdx == indexOf(s, "#")
  IN IF hashIdx = 0 THEN [relPath |-> s, anchor |-> Null]
     ELSE [relPath |-> SubSeq(s, 1, hashIdx - 1),
           anchor |-> IF hashIdx = Len(s) THEN Null ELSE SubSeq(s, hashIdx + 1, Len(s))]

\* path.join normalises: empty and "." segments go, ".." takes the segment
\* before it away, and a ".." with no segment before it stays.
RECURSIVE normalizeSegments(_, _)
normalizeSegments(segments, out) ==
  IF Len(segments) = 0 THEN out
  ELSE IF Head(segments) \in {"", "."} THEN normalizeSegments(Tail(segments), out)
  ELSE IF Head(segments) = ".."
    THEN IF Len(out) > 0 /\ out[Len(out)] # ".."
           THEN normalizeSegments(Tail(segments), SubSeq(out, 1, Len(out) - 1))
         ELSE normalizeSegments(Tail(segments), Append(out, ".."))
  ELSE normalizeSegments(Tail(segments), Append(out, Head(segments)))

\* path.join(versionDir, relPath), written relative to the version directory:
\* "." is the directory itself and a path that begins with ".." lies outside
\* it.  The files are kept under these paths.
pathJoin(relPath) ==
  LET named(parts) ==
        IF Len(parts) = 0 THEN "."
        ELSE join(parts, "/") \o (IF endsWith(relPath, "/") THEN "/" ELSE "")
  IN named(normalizeSegments(split(relPath, "/"), <<>>))

\* The path of the file to read, or Null where the source throws: no file of
\* this path exists (a directory cannot be read either).
resolveMarkdownPathFromRelPath(files, relPath) ==
  IF pathJoin(relPath) \in DOMAIN files THEN pathJoin(relPath) ELSE Null

\* What open does with a page and an optional anchor: anchored ?? md.
sectionOrPage(files, relPath, anchor) ==
  IF resolveMarkdownPathFromRelPath(files, relPath) = Null
    THEN [error |-> "Markdown not found", out |-> Null]
  ELSE LET md == files[resolveMarkdownPathFromRelPath(files, relPath)]
           anchored == IF anchor # Null /\ anchor # ""
                         THEN extractMarkdownSectionByAnchor(md, anchor) ELSE Null
       IN [error |-> Null, out |-> withNewline(IF anchored # Null THEN anchored ELSE md)]

\* What open does with a chunk: anchored ?? chunk.text ?? md.
sectionOrChunkText(files, chunk) ==
  IF chunk.relPath = Null \/ chunk.relPath = ""
    THEN [error |-> Null, out |-> withNewline(chunk.text)]
  ELSE IF resolveMarkdownPathFromRelPath(files, chunk.relPath) = Null
    THEN [error |-> "Markdown not found", out |-> Null]
  ELSE LET md == files[resolveMarkdownPathFromRelPath(files, chunk.relPath)]
           anchored == IF chunk.anchor # Null /\ chunk.anchor # ""
                         THEN extractMarkdownSectionByAnchor(md, chunk.anchor) ELSE Null
       IN [error |-> Null,
           out |-> withNewline(IF anchored # Null THEN anchored ELSE chunk.text)]

\* open without the test for the shape of a chunk id.
openResultPathFirst(target, lines, files, table) ==
  IF target = "" THEN [error |-> "Usage: open <id|relPath>", out |-> Null]
  ELSE IF includes(target, "/") \/ endsWith(target, ".md") \/ includes(target, "#")
    THEN sectionOrPage(files, parseRelPathAndAnchor(target).relPath,
                       parseRelPathAndAnchor(target).anchor)
  ELSE IF table.exists /\ target \in DOMAIN table.entries
    THEN sectionOrPage(files, table.entries[target].relPath,
                       table.entries[target].anchor)
  ELSE IF findChunkById(lines, target) = 0
    THEN [error |-> "Chunk not found", out |-> Null]
  ELSE sectionOrChunkText(files, lines[findChunkById(lines, target)])

\* The open command on a target: the error it throws or the text it prints.
openResult(target, lines, files, table) ==
  IF target = "" THEN [error |-> "Usage: open <id|relPath>", out |-> Null]
  ELSE IF (includes(target, "/") \/ endsWith(target, ".md") \/ includes(target, "#"))
          /\ ~looksLikeChunkId(target)
    THEN sectionOrPage(files, parseRelPathAndAnchor(target).relPath,
                       parseRelPathAndAnchor(target).anchor)
  ELSE IF table.exists /\ target \in DOMAIN table.entries
    THEN sectionOrPage(files, table.entries[target].relPath,
                       table.entries[target].anchor)
  ELSE IF findChunkById(lines, target) = 0
    THEN [error |-> "Chunk not found", out |-> Null]
  ELSE sectionOrChunkText(files, lines[findChunkById(lines, target)])

(***************************************************************************)
(* The retrieval process: one action per command, search one per line of   *)
(* chunks.jsonl.                                                           *)
(***************************************************************************)
Fail(msg) ==
  /\ pc' = "failed"
  /\ stderr' = Append(stderr, msg)
  /\ exitCode' = 1
  /\ UNCHANGED <<pos, hits, stdout>>

\* case "versions": list the version directories or fail.
Versions ==
  /\ pc = "start" /\ cmd = "versions"
  /\ IF Len(listVersions(entries)) = 0 THEN Fail("No versions found")
     ELSE /\ pc' = "done"
          /\ stdout' = stdout \o listVersions(entries)
          /\ exitCode' = 0
          /\ UNCHANGED <<pos, hits, stderr>>
  /\ UNCHANGED <<argv, parsed, cmd, flags, positional, entries, chunksJsonl, mdFiles, symbols>>
  /\ UNCHANGED <<genVars, extractVars, linkVars>>

\* case "search", up to the loop over the chunks.
SearchStart ==
  /\ pc = "start" /\ cmd = "search"
  /\ IF preludeError(flags, entries) # Null THEN Fail(preludeError(flags, entries))
     ELSE IF trim(positional) = "" THEN Fail("Usage: search <query>")
     ELSE /\ pc' = "scan"
          /\ pos' = 0
          /\ hits' = <<>>
          /\ UNCHANGED <<stdout, stderr, exitCode>>
  /\ UNCHANGED <<argv, parsed, cmd, flags, positional, entries, chunksJsonl, mdFiles, symbols>>
  /\ UNCHANGED <<genVars, extractVars, linkVars>>

\* One line of chunks.jsonl: skipped when it does not decode or is filtered
\* out or scores 0, else pushed, sorted and truncated.
SearchStep ==
  /\ pc = "scan" /\ pos < Len(chunksJsonl)
  /\ pos' = pos + 1
  /\ LET chunk == chunksJsonl[pos + 1]
         q == toLowerCase(trim(positional))
     IN IF chunk.valid /\ passesFilters(chunk, flags) /\ scoreOf(chunk, q) > 0
          THEN hits' = pushSortTruncate(hits, hitOf(chunk, q), flags.limit)
          ELSE hits' = hits
  /\ UNCHANGED <<pc, stdout, stderr, exitCode>>
  /\ UNCHANGED <<argv, parsed, cmd, flags, positional, entries, chunksJsonl, mdFiles, symbols>>
  /\ UNCHANGED <<genVars, extractVars, linkVars>>

\* After the loop: the hits are printed (nothing when there is none).
SearchEnd ==
  /\ pc = "scan" /\ pos = Len(chunksJsonl)
  /\ pc' = "done"
  /\ stdout' = stdout \o hits
  /\ exitCode' = 0
  /\ UNCHANGED <<pos, hits, stderr>>
  /\ UNCHANGED <<argv, parsed, cmd, flags, positional, entries, chunksJsonl, mdFiles, symbols>>
  /\ UNCHANGED <<genVars, extractVars, linkVars>>

\* case "get"
Get ==
  /\ pc = "start" /\ cmd = "get"
  /\ IF preludeError(flags, entries) # Null THEN Fail(preludeError(flags, entries))
     ELSE IF trim(positional) = "" THEN Fail("Usage: get <id>")
     ELSE IF findChunkById(chunksJsonl, trim(positional)) = 0
       THEN Fail("Chunk not found")
     ELSE /\ pc' = "done"
          /\ stdout' = Append(stdout, chunksJsonl[findChunkById(chunksJsonl, trim(positional))])
          /\ exitCode' = 0
          /\ UNCHANGED <<pos, hits, stderr>>
  /\ UNCHANGED <<argv, parsed, cmd, flags, positional, entries, chunksJsonl, mdFiles, symbols>>
  /\ UNCHANGED <<genVars, extractVars, linkVars>>

\* case "open"
Open ==
  /\ pc = "start" /\ cmd = "open"
  /\ IF preludeError(flags, entries) # Null THEN Fail(preludeError(flags, entries))
     ELSE LET r == openResult(trim(positional), chunksJsonl, mdFiles, symbols)
          IN IF r.error # Null THEN Fail(r.error)
             ELSE /\ pc' = "done"
                  /\ stdout' = Append(stdout, r.out)
                  /\ exitCode' = 0
                  /\ UNCHANGED <<pos, hits, stderr>>
  /\ UNCHANGED <<argv, parsed, cmd, flags, positional, entries, chunksJsonl, mdFiles, symbols>>
  /\ UNCHANGED <<genVars, extractVars, linkVars>>

(***************************************************************************)
(* tools/factorio-api-docs-to-llm.ts: pure functions.  A text is the       *)
(* sequence of its lines (every piece the source appends ends in "\n"); a  *)
(* description is one line.  The backquote is written "^".                 *)
(***************************************************************************)
\* The text as the string that is written.
textOf(lines) == IF Len(lines) = 0 THEN "" ELSE join(lines, "\n") \o "\n"

\* A type of the JSON documents: a name, or a complex type.
SimpleType(name) == [complex_type |-> "", name |-> name]

ArrayType(value) == [complex_type |-> "array", value |-> value]

RECURSIVE typeToString(_)
typeToString(t) ==
  IF t.complex_type = "" THEN t.name
  ELSE IF t.complex_type = "array" THEN "Array<" \o typeToString(t.value) \o ">"
  ELSE t.complex_type

mapParams(parameters) ==
  [i \in 1..Len(parameters) |->
     parameters[i].name \o (IF parameters[i].optional THEN "?" ELSE "") \o ": "
       \o typeToString(parameters[i].type)]

mapReturns(returnValues) ==
  [i \in 1..Len(returnValues) |->
     typeToString(returnValues[i].type) \o (IF returnValues[i].optional THEN "?" ELSE "")]

renderSignature(name, parameters, returnValues) ==
  name \o "(" \o join(mapParams(parameters), ", ") \o ")"
    \o (IF Len(returnValues) > 0 THEN " -> " \o join(mapReturns(returnValues), ", ")
        ELSE "")

\* items.slice().sort((a, b) => (a.order ?? 0) - (b.order ?? 0)): stable.
RECURSIVE insertByOrder(_, _)
insertByOrder(sorted, x) ==
  IF Len(sorted) = 0 THEN <<x>>
  ELSE IF x.order - Head(sorted).order < 0 THEN <<x>> \o sorted
  ELSE <<Head(sorted)>> \o insertByOrder(Tail(sorted), x)

RECURSIVE sortByOrder(_)
sortByOrder(items) ==
  IF Len(items) = 0 THEN <<>>
  ELSE insertByOrder(sortByOrder(SubSeq(items, 1, Len(items) - 1)), items[Len(items)])

\* mdSection(title): "\n## title\n"
mdSection(title) == <<"", "## " \o title>>

\* mdFieldList(items); the dash U+2014 before a description is written "--".
mdFieldList(items) ==
  [i \in 1..Len(items) |->
     "- ^" \o items[i].name \o (IF items[i].optional THEN "?" ELSE "") \o "^: ^"
       \o typeToString(items[i].type) \o "^"
       \o (IF items[i].description # "" THEN " -- " \o items[i].description ELSE "")]

returnsList(rvs) ==
  [i \in 1..Len(rvs) |->
     "- ^" \o typeToString(rvs[i].type) \o (IF rvs[i].optional THEN "?" ELSE "") \o "^"
       \o (IF rvs[i].description # "" THEN " -- " \o rvs[i].description ELSE "")]

boolText(b) == IF b THEN "true" ELSE "false"

UpperOf(c) ==
  IF \E u \in DOMAIN LowerMap : LowerMap[u] = c
    THEN CHOOSE u \in DOMAIN LowerMap : LowerMap[u] = c ELSE c

RECURSIVE underscoresToHyphens(_)
underscoresToHyphens(s) ==
  IF s = "" THEN ""
  ELSE (IF Head(s) = "_" THEN "-" ELSE Head(s)) \o underscoresToHyphens(Tail(s))

\* slug.split(/[-_]+/g).filter(Boolean).map(capitalise).join(" ")
toTitleCaseFromSlug(slug) ==
  LET words == SelectSeq(split(underscoresToHyphens(slug), "-"), LAMBDA w : w # "")
  IN join([i \in 1..Len(words) |-> UpperOf(Head(words[i])) \o Tail(words[i])], " ")

auxiliaryTitle(base) ==
  IF base = "json-docs-runtime" THEN "Runtime JSON Format"
  ELSE IF base = "json-docs-prototype" THEN "Prototype JSON Format"
  ELSE toTitleCaseFromSlug(base)

indexTitle(stage, kind) ==
  (IF stage = "runtime" THEN "Runtime" ELSE "Prototype") \o " " \o toTitleCaseFromSlug(kind)

\* renderFrontmatter({version, stage, kind, name, source})
renderFrontmatter(version, stage, kind, name, source) ==
  <<"---", "version: " \o version, "stage: " \o stage, "kind: " \o kind,
    "name: " \o name, "source: " \o source, "---">>

\* body.trim(), for a body that starts with a heading: the blank lines at the
\* end go, and the white space at the end of the last line.
RECURSIVE trimLines(_)
trimLines(lines) ==
  IF Len(lines) = 0 THEN <<>>
  ELSE IF trim(lines[Len(lines)]) = "" THEN trimLines(SubSeq(lines, 1, Len(lines) - 1))
  ELSE [lines EXCEPT ![Len(lines)] = trimEnd(lines[Len(lines)])]

\* The page that writeSymbolMarkdown writes: front matter, a blank line and
\* the trimmed body (trimming and link conversion do not touch one another).
pageContent(version, stage, kind, name, source, body) ==
  renderFrontmatter(version, stage, kind, name, source) \o <<"">> \o trimLines(body)

(***************************************************************************)
(* The pages and chunks of one symbol.                                     *)
(***************************************************************************)
attributeLines(a) ==
  <<"- Read: ^" \o typeToString(a.read_type) \o "^",
    "- Write: ^" \o typeToString(a.write_type) \o "^",
    "- Optional: ^" \o boolText(a.optional) \o "^", "">>

\* The part of a class page that one attribute adds.
attributeSection(a) ==
  <<"", "### " \o a.name, "">> \o attributeLines(a)
    \o (IF a.description # "" THEN <<a.description>> ELSE <<>>)

parametersSection(parameters) ==
  IF Len(parameters) = 0 THEN <<>>
  ELSE mdSection("Parameters") \o <<"">> \o mdFieldList(sortByOrder(parameters))

returnsSection(returnValues) ==
  IF Len(returnValues) = 0 THEN <<>>
  ELSE mdSection("Returns") \o <<"">> \o returnsList(sortByOrder(returnValues))

\* The part of a class page that one method adds.
methodSection(c, m) ==
  <<"", "### " \o m.name, "">>
    \o <<"", "^^^lua", renderSignature(c.name \o "." \o m.name, m.parameters, m.return_values),
         "^^^", "">>
    \o (IF m.description # "" THEN <<m.description, "">> ELSE <<>>)
    \o parametersSection(m.parameters)
    \o returnsSection(m.return_values)

RECURSIVE concatAll(_)
concatAll(parts) == IF Len(parts) = 0 THEN <<>> ELSE Head(parts) \o concatAll(Tail(parts))

classBody(c) ==
  LET attributes == sortByOrder(c.attributes)
      methods == sortByOrder(c.methods)
  IN <<"# " \o c.name, "", c.description>>
       \o (IF c.parent # "" THEN mdSection("Parent") \o <<"", "- ^" \o c.parent \o "^">>
           ELSE <<>>)
       \o (IF Len(attributes) > 0
             THEN mdSection("Attributes")
                    \o concatAll([i \in 1..Len(attributes) |-> attributeSection(attributes[i])])
             ELSE <<>>)
       \o (IF Len(methods) > 0
             THEN mdSection("Methods")
                    \o concatAll([i \in 1..Len(methods) |-> methodSection(c, methods[i])])
             ELSE <<>>)

memberId(version, stage, kind, name, member) ==
  version \o "/" \o stage \o "/" \o kind \o "/" \o name \o "#" \o member

rootId(version, stage, kind, name) == version \o "/" \o stage \o "/" \o kind \o "/" \o name

rootChunk(version, stage, idKind, kind, idName, name, outRel, text) ==
  [id |-> rootId(version, stage, idKind, idName), version |-> version, stage |-> stage,
   kind |-> kind, name |-> name, relMarkdownPath |-> outRel, text |-> text]

memberChunk(version, stage, idKind, kind, idName, name, member, outRel, text) ==
  [id |-> memberId(version, stage, idKind, idName, member), version |-> version,
   stage |-> stage, kind |-> kind, name |-> name, member |-> member,
   relMarkdownPath |-> outRel, anchor |-> member, text |-> text]

attributeChunk(version, c, a, outRel) ==
  memberChunk(version, "runtime", "class", "class_attribute", c.name, c.name, a.name, outRel,
              <<"# " \o c.name \o "." \o a.name \o " (attribute)", "">>
                \o attributeLines(a) \o <<a.description>>)

methodChunk(version, c, m, outRel) ==
  memberChunk(version, "runtime", "class", "class_method", c.name, c.name, m.name, outRel,
              <<"# " \o c.name \o "." \o m.name \o " (method)", "", "^^^lua",
                renderSignature(c.name \o "." \o m.name, m.parameters, m.return_values),
                "^^^", "", m.description>>)

\* The chunks of one class, in the order they are written.
classChunks(version, c, outRel) ==
  LET attributes == sortByOrder(c.attributes)
      methods == sortByOrder(c.methods)
  IN [i \in 1..Len(attributes) |-> attributeChunk(version, c, attributes[i], outRel)]
       \o [i \in 1..Len(methods) |-> methodChunk(version, c, methods[i], outRel)]
       \o <<rootChunk(version, "runtime", "class", "class", c.name, c.name, outRel,
                      <<"# " \o c.name, "", c.description>>)>>

\* A symbol whose page and single chunk hold the same text.
conceptBody(c) ==
  <<"# " \o c.name, "", c.description>>
    \o (IF c.hasType THEN mdSection("Type") \o <<"", "^" \o typeToString(c.type) \o "^">>
        ELSE <<>>)

\* examples.join("\n\n") + "\n"
RECURSIVE examplesLines(_)
examplesLines(examples) ==
  IF Len(examples) = 0 THEN <<"">>
  ELSE IF Len(examples) = 1 THEN <<examples[1]>>
  ELSE <<examples[1], "">> \o examplesLines(Tail(examples))

eventBody(e) ==
  <<"# " \o e.name, "", e.description>>
    \o (IF Len(e.data) > 0 THEN mdSection("Event Data") \o mdFieldList(sortByOrder(e.data))
        ELSE <<>>)
    \o (IF Len(e.examples) > 0 THEN mdSection("Examples") \o examplesLines(e.examples)
        ELSE <<>>)

valueSection(v) == <<"", "### " \o v.name, "", v.description>>

defineBody(d) ==
  LET values == sortByOrder(d.values)
  IN <<"# defines." \o d.name, "", d.description>>
       \o (IF Len(values) > 0
             THEN mdSection("Values")
                    \o concatAll([i \in 1..Len(values) |-> valueSection(values[i])])
             ELSE <<>>)

defineChunks(version, stage, d, outRel) ==
  LET values == sortByOrder(d.values)
  IN [i \in 1..Len(values) |->
        memberChunk(version, stage, "define", "define_value", d.name, "defines." \o d.name,
                    values[i].name, outRel,
                    <<"# defines." \o d.name \o "." \o values[i].name, "",
                      values[i].description>>)]
       \o <<rootChunk(version, stage, "define", "define", d.name, "defines." \o d.name,
                      outRel, defineBody(d))>>

globalFunctionBody(f) ==
  <<"# " \o f.name, "", f.description, "", "^^^lua",
    renderSignature(f.name, f.parameters, f.return_values), "^^^">>
    \o parametersSection(f.parameters)
    \o returnsSection(f.return_values)

globalObjectBody(o) ==
  <<"# " \o o.name, "", "Type: ^" \o typeToString(o.type) \o "^", "", o.description>>

\* The part of a prototype page (withOverride) or type page that one
\* property adds.
propertySection(prop, withOverride) ==
  <<"", "### " \o prop.name, "", "- Type: ^" \o typeToString(prop.type) \o "^",
    "- Optional: ^" \o boolText(prop.optional) \o "^">>
    \o (IF withOverride THEN <<"- Override: ^" \o boolText(prop.override) \o "^">> ELSE <<>>)
    \o <<"">>
    \o (IF prop.description # "" THEN <<prop.description, "">> ELSE <<>>)
    \o (IF Len(prop.examples) > 0
          THEN mdSection("Examples") \o <<"">> \o examplesLines(prop.examples) ELSE <<>>)

propertyChunk(version, idKind, kind, owner, prop, outRel) ==
  memberChunk(version, "prototype", idKind, kind, owner.name, owner.name, prop.name, outRel,
              <<"# " \o owner.name \o "." \o prop.name \o " (property)", "",
                "- Type: ^" \o typeToString(prop.type) \o "^",
                "- Optional: ^" \o boolText(prop.optional) \o "^", "", prop.description>>)

prototypeBody(pt) ==
  LET props == sortByOrder(pt.properties)
  IN <<"# " \o pt.name, "", pt.description>>
       \o (IF pt.parent # "" THEN mdSection("Parent") \o <<"", "- ^" \o pt.parent \o "^">>
           ELSE <<>>)
       \o (IF Len(props) > 0
             THEN mdSection("Properties")
                    \o concatAll([i \in 1..Len(props) |-> propertySection(props[i], TRUE)])
             ELSE <<>>)

prototypeChunks(version, pt, outRel) ==
  LET props == sortByOrder(pt.properties)
  IN [i \in 1..Len(props) |->
        propertyChunk(version, "prototype", "prototype_property", pt, props[i], outRel)]
       \o <<rootChunk(version, "prototype", "prototype", "prototype", pt.name, pt.name,
                      outRel, <<"# " \o pt.name, "", pt.description>>)>>

typeBody(t) ==
  LET props == sortByOrder(t.properties)
  IN <<"# " \o t.name, "", t.description>>
       \o (IF t.hasType THEN mdSection("Type") \o <<"", "^" \o typeToString(t.type) \o "^">>
           ELSE <<>>)
       \o (IF Len(props) > 0
             THEN mdSection("Properties")
                    \o concatAll([i \in 1..Len(props) |-> propertySection(props[i], FALSE)])
             ELSE <<>>)

typeChunks(version, t, outRel) ==
  LET props == sortByOrder(t.properties)
  IN [i \in 1..Len(props) |->
        propertyChunk(version, "type", "type_property", t, props[i], outRel)]
       \o <<rootChunk(version, "prototype", "type", "type", t.name, t.name, outRel,
                      typeBody(t))>>

\* items.slice().sort((a, b) => a.name.localeCompare(b.name))
RECURSIVE insertByName(_, _)
insertByName(sorted, x) ==
  IF Len(sorted) = 0 THEN <<x>>
  ELSE IF localeCompare(x.name, Head(sorted).name) < 0 THEN <<x>> \o sorted
  ELSE <<Head(sorted)>> \o insertByName(Tail(sorted), x)

RECURSIVE sortByName(_)
sortByName(items) ==
  IF Len(items) = 0 THEN <<>>
  ELSE insertByName(sortByName(SubSeq(items, 1, Len(items) - 1)), items[Len(items)])

\* The text of an index page: "# title\n\n" + rows.join("\n") + "\n".
indexBody(stage, kind, items) ==
  LET sorted == sortByName(items)
  IN <<"# " \o indexTitle(stage, kind), "">>
       \o (IF Len(sorted) = 0 THEN <<"">>
           ELSE [i \in 1..Len(sorted) |->
                   "- [^" \o sorted[i].name \o "^](./" \o sorted[i].name \o ".md)"
                     \o (IF trim(sorted[i].description) # ""
                           THEN " -- " \o trim(sorted[i].description) ELSE "")])

indexChunk(version, stage, kind, items, rel) ==
  [id |-> version \o "/" \o stage \o "/" \o kind \o "/index", version |-> version,
   stage |-> stage, kind |-> kind \o "_index", name |-> indexTitle(stage, kind),
   relMarkdownPath |-> rel, text |-> indexBody(stage, kind, items)]

\* The Markdown that htmlToMarkdown and stripLeadingDuplicateHeading leave of
\* auxiliary/<base>.html: the model takes the page as already converted.
auxiliaryMarkdown(base) == <<"About " \o base \o ".">>

auxiliaryBody(base) == <<"# " \o auxiliaryTitle(base), "">> \o auxiliaryMarkdown(base)

auxiliaryChunk(version, base, outRel) ==
  [id |-> version \o "/auxiliary/" \o base, version |-> version, stage |-> "auxiliary",
   kind |-> "auxiliary", name |-> base, relMarkdownPath |-> outRel,
   text |-> auxiliaryBody(base)]

(***************************************************************************)
(* The generator's main(): state.                                          *)
(***************************************************************************)
\* parseArgs' defaults; only is <<>> when --only is not given (undefined).
DefaultArgs == [outDir |-> "llm-docs", force |-> FALSE, version |-> Null, only |-> <<>>]

\* runtime-api.json or prototype-api.json does not exist.
Absent == [present |-> FALSE]

\* The auxiliary directory does not exist.
NoDirectory == [exists |-> FALSE, names |-> <<>>]

\* The output version directory: whether it exists, and its files by their
\* path relative to it.
EmptyDisk == [exists |-> FALSE, files |-> <<>>]

\* args.version ?? runtimeObj?.application_version ?? prototypeObj?.application_version
detectedVersion ==
  IF args.version # Null THEN args.version
  ELSE IF runtimeObj.present /\ runtimeObj.application_version # Null
    THEN runtimeObj.application_version
  ELSE IF prototypeObj.present THEN prototypeObj.application_version
  ELSE Null

\* toPosix(path.relative(cwd, path.join(cwd, args.outDir, detectedVersion)))
outVersionRel == args.outDir \o "/" \o detectedVersion

\* new Set(args.only ?? ["runtime", "prototype", "auxiliary"]).has(stage)
onlyHas(stage) == args.only = <<>> \/ stage \in Range(args.only)

\* path.posix.relative(outVersionRel, relPath) for a path below outVersionRel
relativeToRoot(relPath) ==
  IF startsWith(relPath, outVersionRel \o "/")
    THEN SubSeq(relPath, Len(outVersionRel) + 2, Len(relPath))
  ELSE relPath

\* Map.prototype.set and get on a map kept as its entries in insertion order.
mapSet(map, key, relPath) ==
  IF \E i \in 1..Len(map) : map[i].key = key
    THEN [i \in 1..Len(map) |-> IF map[i].key = key THEN [key |-> key, relPath |-> relPath]
                                 ELSE map[i]]
  ELSE Append(map, [key |-> key, relPath |-> relPath])

mapGet(map, key) == map[CHOOSE i \in 1..Len(map) : map[i].key = key].relPath

RECURSIVE mapSetAll(_, _)
mapSetAll(map, pairs) ==
  IF Len(pairs) = 0 THEN map
  ELSE mapSetAll(mapSet(map, Head(pairs).key, Head(pairs).relPath), Tail(pairs))

pagePath(root, dir, name) == root \o "/" \o dir \o "/" \o name \o ".md"

buildResolverMaps(root, basenames) ==
  mapSetAll(<<>>,
    concatAll([i \in 1..Len(basenames) |->
      <<[key |-> "auxiliary:" \o basenames[i],
         relPath |-> pagePath(root, "auxiliary", basenames[i])],
        [key |-> "runtime:" \o basenames[i],
         relPath |-> pagePath(root, "auxiliary", basenames[i])],
        [key |-> "prototype:" \o basenames[i],
         relPath |-> pagePath(root, "auxiliary", basenames[i])]>>])
    \o <<[key |-> "runtime:classes", relPath |-> pagePath(root, "runtime/classes", "index")],
         [key |-> "runtime:concepts", relPath |-> pagePath(root, "runtime/concepts", "index")],
         [key |-> "runtime:events", relPath |-> pagePath(root, "runtime/events", "index")],
         [key |-> "runtime:defines", relPath |-> pagePath(root, "runtime/defines", "index")],
         [key |-> "prototype:prototypes",
          relPath |-> pagePath(root, "prototype/prototypes", "index")],
         [key |-> "prototype:types", relPath |-> pagePath(root, "prototype/types", "index")],
         [key |-> "prototype:defines",
          relPath |-> pagePath(root, "prototype/defines", "index")]>>)

\* The entries that main() adds for the symbols of one collection.
symbolEntries(root, stage, prefix, dir, items) ==
  [i \in 1..Len(items) |->
     [key |-> stage \o ":" \o prefix \o items[i].name,
      relPath |-> pagePath(root, stage \o "/" \o dir, items[i].name)]]

\* The resolver map after lines 474-489.
catalogOf(root, basenames, runtime, prototype) ==
  mapSetAll(buildResolverMaps(root, basenames),
    (IF runtime.present
       THEN symbolEntries(root, "runtime", "", "classes", runtime.classes)
              \o symbolEntries(root, "runtime", "", "concepts", runtime.concepts)
              \o symbolEntries(root, "runtime", "", "events", runtime.events)
              \o symbolEntries(root, "runtime", "defines.", "defines", runtime.defines)
              \o symbolEntries(root, "runtime", "", "global_functions",
                               runtime.global_functions)
              \o symbolEntries(root, "runtime", "", "global_objects", runtime.global_objects)
       ELSE <<>>)
    \o (IF prototype.present
          THEN symbolEntries(root, "prototype", "", "prototypes", prototype.prototypes)
                 \o symbolEntries(root, "prototype", "", "types", prototype.types)
                 \o symbolEntries(root, "prototype", "defines.", "defines", prototype.defines)
          ELSE <<>>))

(***************************************************************************)
(* The resolver and the two link converters.                               *)
(***************************************************************************)
mapHas(map, key) == \E i \in 1..Len(map) : map[i].key = key

\* path.posix.dirname and basename of a relative path.
dirname(p) ==
  LET parts == split(p, "/")
  IN IF Len(parts) = 1 THEN "." ELSE join(SubSeq(parts, 1, Len(parts) - 1), "/")

basename(p) == split(p, "/")[Len(split(p, "/"))]

RECURSIVE commonLen(_, _)
commonLen(a, b) ==
  IF Len(a) = 0 \/ Len(b) = 0 \/ Head(a) # Head(b) THEN 0
  ELSE 1 + commonLen(Tail(a), Tail(b))

\* path.posix.relative(from, to) for two relative paths without . and ..
\* segments: up from what is left of from, down what is left of to.
relative(from, to) ==
  LET f == IF from = "." THEN <<>> ELSE split(from, "/")
      t == split(to, "/")
      n == commonLen(f, t)
  IN join([i \in 1..(Len(f) - n) |-> ".."] \o SubSeq(t, n + 1, Len(t)), "/")

relLink(fromRelPath, toRelPath) ==
  LET rel == relative(dirname(fromRelPath), toRelPath)
  IN IF Len(rel) > 0 THEN rel ELSE basename(toRelPath)

\* The null of resolve, and a result; anchor is Null where the code leaves
\* it undefined.
Unresolved == [relPath |-> Null, anchor |-> Null]

ResolveResult(relPath, anchor) == [relPath |-> relPath, anchor |-> anchor]

\* resolve with the first segment after the group alone as the anchor.
resolveOneSegment(map, target) ==
  LET firstColon == indexOf(target, ":")
      stage == IF firstColon = 0 THEN "" ELSE SubSeq(target, 1, firstColon - 1)
      rest == IF firstColon = 0 THEN "" ELSE SubSeq(target, firstColon + 1, Len(target))
      staged == stage = "runtime" \/ stage = "prototype"
  IN IF rest = "" THEN Unresolved
     ELSE IF staged /\ startsWith(rest, "defines.")
       THEN LET parts == split(SubSeq(rest, Len("defines.") + 1, Len(rest)), ".")
                key == stage \o ":defines." \o parts[1]
            IN IF ~mapHas(map, key) THEN Unresolved
               ELSE ResolveResult(mapGet(map, key),
                                  IF Len(parts) > 1 THEN parts[2] ELSE Null)
     ELSE IF staged /\ includes(rest, "::")
       THEN LET at == indexOf(rest, "::")
                base == SubSeq(rest, 1, at - 1)
                after == SubSeq(rest, at + 2, Len(rest))
            IN IF mapHas(map, stage \o ":" \o base)
                 THEN ResolveResult(mapGet(map, stage \o ":" \o base), after)
               ELSE IF mapHas(map, "auxiliary:" \o base)
                 THEN ResolveResult(mapGet(map, "auxiliary:" \o base), after)
               ELSE Unresolved
     ELSE IF mapHas(map, target) THEN ResolveResult(mapGet(map, target), Null)
     ELSE IF mapHas(map, "auxiliary:" \o rest)
       THEN ResolveResult(mapGet(map, "auxiliary:" \o rest), Null)
     ELSE Unresolved

\* The function that makeResolve(map) returns.
resolve(map, target) ==
  LET firstColon == indexOf(target, ":")
      stage == IF firstColon = 0 THEN "" ELSE SubSeq(target, 1, firstColon - 1)
      rest == IF firstColon = 0 THEN "" ELSE SubSeq(target, firstColon + 1, Len(target))
      staged == stage = "runtime" \/ stage = "prototype"
  IN IF rest = "" THEN Unresolved
     ELSE IF staged /\ startsWith(rest, "defines.")
       THEN LET parts == split(SubSeq(rest, Len("defines.") + 1, Len(rest)), ".")
                key == stage \o ":defines." \o parts[1]
            IN IF ~mapHas(map, key) THEN Unresolved
               ELSE ResolveResult(mapGet(map, key),
                                  IF Len(parts) > 1 THEN join(Tail(parts), ".") ELSE Null)
     ELSE IF staged /\ includes(rest, "::")
       THEN LET at == indexOf(rest, "::")
                base == SubSeq(rest, 1, at - 1)
                after == SubSeq(rest, at + 2, Len(rest))
                member == IF includes(after, "::")
                            THEN SubSeq(after, 1, indexOf(after, "::") - 1) ELSE after
            IN IF mapHas(map, stage \o ":" \o base)
                 THEN ResolveResult(mapGet(map, stage \o ":" \o base), member)
               ELSE IF mapHas(map, "auxiliary:" \o base)
                 THEN ResolveResult(mapGet(map, "auxiliary:" \o base), member)
               ELSE Unresolved
     ELSE IF mapHas(map, target) THEN ResolveResult(mapGet(map, target), Null)
     ELSE IF mapHas(map, "auxiliary:" \o rest)
       THEN ResolveResult(mapGet(map, "auxiliary:" \o rest), Null)
     ELSE Unresolved

\* The position of the first character of s from position i on that is in
\* stops, 0 when none.
firstOf(s, stops, i) ==
  LET found == {k \in i..Len(s) : Char(s, k) \in stops}
  IN IF found = {} THEN 0 ELSE CHOOSE k \in found : \A m \in found : k <= m

\* A match of \[([^\]]+)\]\(([^stops]+)\) at the start of s: the label, the
\* text in the parentheses and the length of the match; length 0 when s does
\* not start with a match.
linkAt(s, stops) ==
  LET close == firstOf(s, {"]"}, 2)
      inner == SubSeq(s, close + 2, Len(s))
      end == firstOf(inner, stops, 1)
  IN IF Len(s) > 0 /\ Head(s) = "[" /\ close > 2 /\ close < Len(s)
        /\ Char(s, close + 1) = "("
        /\ end > 1 /\ Char(inner, end) = ")"
       THEN [label |-> SubSeq(s, 2, close - 1), href |-> SubSeq(inner, 1, end - 1),
             length |-> close + 1 + end]
     ELSE [label |-> "", href |-> "", length |-> 0]

\* The replacement of one match of convertInternalLinks.
internalLink(label, stage, rest, fromRelPath, map) ==
  LET target == stage \o ":" \o rest
      resolved == resolve(map, target)
  IN IF resolved = Unresolved THEN "[" \o label \o "](" \o target \o ")"
     ELSE "[" \o label \o "]("
            \o relLink(fromRelPath, resolved.relPath)
            \o (IF resolved.anchor # Null /\ resolved.anchor # ""
                  THEN "#" \o resolved.anchor ELSE "")
            \o ")"

\* md.replace(/\[([^\]]+)\]\((runtime|prototype):([^)]+)\)/g, ...): the text
\* before the next [ stays, and a match that starts there is replaced.
RECURSIVE convertInternalLinks(_, _, _)
convertInternalLinks(md, fromRelPath, map) ==
  LET open == firstOf(md, {"["}, 1)
      s == SubSeq(md, open, Len(md))
      m == linkAt(s, {")"})
      stage == IF startsWith(m.href, "runtime:") THEN "runtime"
               ELSE IF startsWith(m.href, "prototype:") THEN "prototype"
               ELSE ""
      rest == SubSeq(m.href, Len(stage) + 2, Len(m.href))
  IN IF open = 0 THEN md
     ELSE SubSeq(md, 1, open - 1)
            \o (IF m.length > 0 /\ stage # "" /\ rest # ""
                  THEN internalLink(m.label, stage, rest, fromRelPath, map)
                         \o convertInternalLinks(SubSeq(s, m.length + 1, Len(s)),
                                                 fromRelPath, map)
                ELSE "[" \o convertInternalLinks(Tail(s), fromRelPath, map))

IsNameChar(c) ==
  \/ c = "-" \/ IsDigit(c) \/ c \in DOMAIN LowerMap
  \/ c \in {LowerMap[u] : u \in DOMAIN LowerMap}

\* /^([a-z0-9-]+)\.html$/i : the base, "" when the path does not match.
auxMatch(rawPath) ==
  LET base == SubSeq(rawPath, 1, Len(rawPath) - Len(".html"))
  IN IF endsWith(toLowerCase(rawPath), ".html") /\ base # ""
        /\ \A i \in 1..Len(base) : IsNameChar(Char(base, i))
       THEN base ELSE ""

OverviewKinds == {"classes", "concepts", "events", "prototypes", "types", "defines"}

\* /^(\.\.\/)?(classes|concepts|events|prototypes|types|defines)\.html$/i :
\* the kind as it is written, "" when the path does not match.
overviewMatch(rawPath) ==
  LET path == IF startsWith(rawPath, "../") THEN SubSeq(rawPath, 4, Len(rawPath))
              ELSE rawPath
      kind == SubSeq(path, 1, Len(path) - Len(".html"))
  IN IF endsWith(toLowerCase(path), ".html") /\ toLowerCase(kind) \in OverviewKinds
       THEN kind ELSE ""

\* /^\.\.\/(classes|concepts|events|prototypes|types)\/([^/]+)\.html$/i
memberMatch(rawPath) ==
  LET parts == split(rawPath, "/")
      file == parts[Len(parts)]
      name == SubSeq(file, 1, Len(file) - Len(".html"))
  IN IF Len(parts) = 3 /\ parts[1] = ".."
        /\ toLowerCase(parts[2]) \in (OverviewKinds \ {"defines"})
        /\ endsWith(toLowerCase(file), ".html") /\ name # ""
       THEN [kind |-> parts[2], name |-> name]
     ELSE [kind |-> "", name |-> ""]

stageHintOf(kind) == IF kind = "prototypes" \/ kind = "types" THEN "prototype" ELSE "runtime"

\* The link to a resolved page, or the label alone.
linkOrLabel(label, href, resolved, fromRelPath, suffix) ==
  IF resolved = Unresolved THEN label
  ELSE "[" \o label \o "](" \o relLink(fromRelPath, resolved.relPath) \o suffix \o ")"

\* The link to a resolved page, or the link as it was.
linkOr(label, href, resolved, fromRelPath, suffix) ==
  IF resolved = Unresolved THEN "[" \o label \o "](" \o href \o ")"
  ELSE "[" \o label \o "](" \o relLink(fromRelPath, resolved.relPath) \o suffix \o ")"

\* The replacement of one match of convertSiteHtmlLinks.
siteHtmlLink(label, href, fromRelPath, map) ==
  LET pieces == split(href, "#")
      rawPath == pieces[1]
      rawHash == IF Len(pieces) > 1 THEN pieces[2] ELSE ""
      hash == IF rawHash # "" THEN "#" \o rawHash ELSE ""
  IN IF auxMatch(rawPath) # ""
       THEN linkOr(label, href, resolve(map, "auxiliary:" \o auxMatch(rawPath)),
                   fromRelPath, hash)
     ELSE IF (rawPath = "defines.html" \/ rawPath = "../defines.html")
             /\ startsWith(rawHash, "defines.")
       THEN LET parts == split(rawHash, ".")
                suffix == IF Len(parts) > 2
                            THEN "#" \o join(SubSeq(parts, 3, Len(parts)), ".") ELSE ""
                stageHint == IF includes(fromRelPath, "/prototype/") THEN "prototype"
                             ELSE "runtime"
            IN linkOr(label, href, resolve(map, stageHint \o ":defines." \o parts[2]),
                      fromRelPath, suffix)
     ELSE IF overviewMatch(rawPath) # ""
       THEN LET kind == overviewMatch(rawPath)
            IN linkOr(label, href, resolve(map, stageHintOf(kind) \o ":" \o kind),
                      fromRelPath, hash)
     ELSE IF memberMatch(rawPath).name # ""
       THEN LET m == memberMatch(rawPath)
            IN linkOr(label, href, resolve(map, stageHintOf(m.kind) \o ":" \o m.name),
                      fromRelPath, hash)
     ELSE "[" \o label \o "](" \o href \o ")"

\* md.replace(/\[([^\]]+)\]\(([^)\s]+)\)/g, ...)
RECURSIVE convertSiteHtmlLinks(_, _, _)
convertSiteHtmlLinks(md, fromRelPath, map) ==
  LET open == firstOf(md, {"["}, 1)
      s == SubSeq(md, open, Len(md))
      m == linkAt(s, {")", " ", "\t", "\n", "\r"})
  IN IF open = 0 THEN md
     ELSE SubSeq(md, 1, open - 1)
            \o (IF m.length > 0
                  THEN siteHtmlLink(m.label, m.href, fromRelPath, map)
                         \o convertSiteHtmlLinks(SubSeq(s, m.length + 1, Len(s)),
                                                 fromRelPath, map)
                ELSE "[" \o convertSiteHtmlLinks(Tail(s), fromRelPath, map))

\* The conversion that writeChunk and writeSymbolMarkdown apply to a text.
\* (Neither converter changes a text without [.)
convertLinks(md, fromRelPath, map) ==
  IF \A k \in 1..Len(md) : Char(md, k) # "[" THEN md
  ELSE convertSiteHtmlLinks(convertInternalLinks(md, fromRelPath, map), fromRelPath, map)

\* ls -1 of the auxiliary directory: the names that end in ".html", without
\* the extension, sorted.
RECURSIVE insertName(_, _)
insertName(sorted, x) ==
  IF Len(sorted) = 0 THEN <<x>>
  ELSE IF compareCodeUnits(x, Head(sorted)) < 0 THEN <<x>> \o sorted
  ELSE <<Head(sorted)>> \o insertName(Tail(sorted), x)

RECURSIVE sortNames(_)
sortNames(names) ==
  IF Len(names) = 0 THEN <<>>
  ELSE insertName(sortNames(SubSeq(names, 1, Len(names) - 1)), names[Len(names)])

listAuxiliary(dir) ==
  IF ~dir.exists THEN <<>>
  ELSE LET html == SelectSeq([i \in 1..Len(dir.names) |-> trim(dir.names[i])],
                             LAMBDA n : endsWith(n, ".html"))
       IN sortNames([i \in 1..Len(html) |-> SubSeq(html[i], 1, Len(html[i]) - 5)])

(***************************************************************************)
(* The generator's main(): one action per step, one per symbol in a loop.  *)
(* phase is the place in main(), idx the number of iterations done there.  *)
(***************************************************************************)
RuntimeIndexKinds == <<"classes", "concepts", "events", "defines">>

PrototypeIndexKinds == <<"prototypes", "types", "defines">>

PhaseOrder ==
  <<"auxiliary", "runtimeIndex", "classes", "concepts", "events", "runtimeDefines",
    "globalFunctions", "globalObjects", "prototypeIndex", "prototypes", "types",
    "prototypeDefines", "close", "extras", "manifest", "done">>

runtimeOn == runtimeObj.present /\ onlyHas("runtime")

prototypeOn == prototypeObj.present /\ onlyHas("prototype")

\* The number of iterations of the loop (or steps) at a place of main().
iterations(p, basenames) ==
  CASE p = "auxiliary" -> IF onlyHas("auxiliary") THEN Len(basenames) ELSE 0
    [] p = "runtimeIndex" -> IF runtimeOn THEN Len(RuntimeIndexKinds) ELSE 0
    [] p = "classes" -> IF runtimeOn THEN Len(runtimeObj.classes) ELSE 0
    [] p = "concepts" -> IF runtimeOn THEN Len(runtimeObj.concepts) ELSE 0
    [] p = "events" -> IF runtimeOn THEN Len(runtimeObj.events) ELSE 0
    [] p = "runtimeDefines" -> IF runtimeOn THEN Len(runtimeObj.defines) ELSE 0
    [] p = "globalFunctions" -> IF runtimeOn THEN Len(runtimeObj.global_functions) ELSE 0
    [] p = "globalObjects" -> IF runtimeOn THEN Len(runtimeObj.global_objects) ELSE 0
    [] p = "prototypeIndex" -> IF prototypeOn THEN Len(PrototypeIndexKinds) ELSE 0
    [] p = "prototypes" -> IF prototypeOn THEN Len(prototypeObj.prototypes) ELSE 0
    [] p = "types" -> IF prototypeOn THEN Len(prototypeObj.types) ELSE 0
    [] p = "prototypeDefines" -> IF prototypeOn THEN Len(prototypeObj.defines) ELSE 0
    [] OTHER -> 1

\* The first place from position k of PhaseOrder on where something is done.
RECURSIVE firstPhaseFrom(_, _)
firstPhaseFrom(k, basenames) ==
  IF iterations(PhaseOrder[k], basenames) > 0 THEN PhaseOrder[k]
  ELSE firstPhaseFrom(k + 1, basenames)

phaseAfter(p, basenames) ==
  firstPhaseFrom((CHOOSE k \in 1..Len(PhaseOrder) : PhaseOrder[k] = p) + 1, basenames)

\* The end of one iteration at place p.
advance(p) ==
  IF idx + 1 < iterations(p, auxiliaryBasenames)
    THEN phase' = p /\ idx' = idx + 1
  ELSE phase' = phaseAfter(p, auxiliaryBasenames) /\ idx' = 0

GenFail(msg) ==
  /\ phase' = "failed"
  /\ genStderr' = Append(genStderr, msg)
  /\ genExit' = 1

\* writeTextFile / writeFile below the output version directory.
writeFile(disk, path, content) == [disk EXCEPT !.files = (path :> content) @@ @]

initialStats ==
  [version |-> detectedVersion,
   outputs |-> [markdown_root |-> outVersionRel,
                chunks_jsonl |-> outVersionRel \o "/chunks.jsonl"],
   counts |-> [runtime |-> [classes |-> 0, concepts |-> 0, events |-> 0, defines |-> 0,
                            global_functions |-> 0, global_objects |-> 0],
               prototype |-> [prototypes |-> 0, types |-> 0, defines |-> 0],
               auxiliary |-> [pages |-> Len(listAuxiliary(auxiliaryDir))],
               chunks |-> 0]]

\* main() that makes the output directory anew before it looks at its inputs.
StartDirectoryFirst ==
  /\ phase = "start"
  /\ outDisk' = [exists |-> TRUE, files |-> <<>>]
  /\ IF ~runtimeObj.present /\ ~prototypeObj.present
       THEN GenFail("Expected runtime-api.json and/or prototype-api.json in the current directory.")
     ELSE IF detectedVersion = Null \/ detectedVersion = ""
       THEN GenFail("Could not determine application_version.")
     ELSE IF outDisk.exists /\ ~args.force
       THEN GenFail("Output already exists: " \o outVersionRel
                      \o " (use --force to overwrite)")
     ELSE /\ phase' = "catalog"
          /\ UNCHANGED <<genStderr, genExit>>
  /\ UNCHANGED <<args, runtimeObj, prototypeObj, auxiliaryDir, auxiliaryBasenames, idx,
                 resolverMap, chunksStream, streamState, stats, genStdout>>
  /\ UNCHANGED <<cliVars, extractVars, linkVars>>

\* main(), lines 434-462: the inputs are read, the version is detected and
\* the output version directory is made (anew under --force).
Start ==
  /\ phase = "start"
  /\ IF ~runtimeObj.present /\ ~prototypeObj.present
       THEN /\ GenFail("Expected runtime-api.json and/or prototype-api.json in the current directory.")
            /\ UNCHANGED outDisk
     ELSE IF detectedVersion = Null \/ detectedVersion = ""
       THEN /\ GenFail("Could not determine application_version.")
            /\ UNCHANGED outDisk
     ELSE IF outDisk.exists /\ ~args.force
       THEN /\ GenFail("Output already exists: " \o outVersionRel
                         \o " (use --force to overwrite)")
            /\ UNCHANGED outDisk
     ELSE /\ phase' = "catalog"
          /\ outDisk' = IF outDisk.exists THEN [exists |-> TRUE, files |-> <<>>]
                        ELSE [outDisk EXCEPT !.exists = TRUE]
          /\ UNCHANGED <<genStderr, genExit>>
  /\ UNCHANGED <<args, runtimeObj, prototypeObj, auxiliaryDir, auxiliaryBasenames, idx,
                 resolverMap, chunksStream, streamState, stats, genStdout>>
  /\ UNCHANGED <<cliVars, extractVars, linkVars>>

\* main(), lines 464-512: the auxiliary pages are listed, the resolver map is
\* filled, the chunk stream is opened and the counters start at 0.
BuildCatalog ==
  /\ phase = "catalog"
  /\ auxiliaryBasenames' = listAuxiliary(auxiliaryDir)
  /\ resolverMap' = catalogOf(outVersionRel, listAuxiliary(auxiliaryDir), runtimeObj,
                              prototypeObj)
  /\ streamState' = "open"
  /\ stats' = initialStats
  /\ phase' = firstPhaseFrom(1, listAuxiliary(auxiliaryDir))
  /\ idx' = 0
  /\ UNCHANGED <<args, runtimeObj, prototypeObj, auxiliaryDir, outDisk, chunksStream,
                 genStdout, genStderr, genExit>>
  /\ UNCHANGED <<cliVars, extractVars, linkVars>>

\* The conversion of a text kept as its lines, none of which holds a link
\* that goes over the end of the line.
convertLines(lines, fromRelPath, map) ==
  [i \in 1..Len(lines) |-> convertLinks(lines[i], fromRelPath, map)]

\* emit that also enters the page it wrote into the resolver map.
emitAndRegister(p, relPath, page, chunks) ==
  /\ outDisk' = writeFile(outDisk, relativeToRoot(relPath),
                          convertLines(page, relPath, resolverMap))
  /\ chunksStream' =
       chunksStream
         \o [i \in 1..Len(chunks) |->
              [chunks[i] EXCEPT !.text = convertLines(@, chunks[i].relMarkdownPath,
                                                      resolverMap)]]
  /\ resolverMap' = mapSet(resolverMap, "auxiliary:" \o relativeToRoot(relPath), relPath)
  /\ advance(p)
  /\ UNCHANGED <<args, runtimeObj, prototypeObj, auxiliaryDir, auxiliaryBasenames,
                 streamState, genStdout, genStderr, genExit>>
  /\ UNCHANGED <<cliVars, extractVars, linkVars>>

\* One page written by writeSymbolMarkdown and its chunks appended by
\* writeChunk, which counts them; both convert the links of the text.  No
\* line of a front matter of the model holds a link.
emit(p, relPath, page, chunks) ==
  /\ outDisk' = writeFile(outDisk, relativeToRoot(relPath),
                          convertLines(page, relPath, resolverMap))
  /\ chunksStream' =
       chunksStream
         \o [i \in 1..Len(chunks) |->
              [chunks[i] EXCEPT !.text = convertLines(@, chunks[i].relMarkdownPath,
                                                      resolverMap)]]
  /\ advance(p)
  /\ UNCHANGED <<args, runtimeObj, prototypeObj, auxiliaryDir, auxiliaryBasenames,
                 resolverMap, streamState, genStdout, genStderr, genExit>>
  /\ UNCHANGED <<cliVars, extractVars, linkVars>>

\* stats.counts.<stage>.<counter>++ and one stats.counts.chunks++ a chunk.
counted(stage, counter, chunks) ==
  [stats EXCEPT !.counts[stage][counter] = @ + 1, !.counts.chunks = @ + Len(chunks)]

\* One auxiliary page (lines 581-599).
RenderAuxiliary ==
  /\ phase = "auxiliary"
  /\ LET base == auxiliaryBasenames[idx + 1]
         outRel == pagePath(outVersionRel, "auxiliary", base)
         chunks == <<auxiliaryChunk(detectedVersion, base, outRel)>>
     IN /\ emit("auxiliary", outRel,
                pageContent(detectedVersion, "auxiliary", "auxiliary", base,
                            "auxiliary/" \o base \o ".html", auxiliaryBody(base)),
                chunks)
        /\ stats' = [stats EXCEPT !.counts.chunks = @ + Len(chunks)]

\* writeIndex for one kind of a stage (lines 541-572).
writeIndex(p, stage, kind, items, source) ==
  LET rel == pagePath(outVersionRel, stage \o "/" \o kind, "index")
      chunks == <<indexChunk(detectedVersion, stage, kind, items, rel)>>
  IN /\ emit(p, rel,
             pageContent(detectedVersion, stage, kind \o "_index", indexTitle(stage, kind),
                         source, indexBody(stage, kind, items)),
             chunks)
     /\ stats' = [stats EXCEPT !.counts.chunks = @ + Len(chunks)]

\* One of the four runtime indexes (lines 601-621).
WriteRuntimeIndex ==
  /\ phase = "runtimeIndex"
  /\ writeIndex("runtimeIndex", "runtime", RuntimeIndexKinds[idx + 1],
                runtimeObj[RuntimeIndexKinds[idx + 1]], "runtime-api.json")

\* One class (lines 623-700).
RenderClass ==
  /\ phase = "classes"
  /\ LET c == runtimeObj.classes[idx + 1]
         outRel == mapGet(resolverMap, "runtime:" \o c.name)
         chunks == classChunks(detectedVersion, c, outRel)
     IN /\ emit("classes", outRel,
                pageContent(detectedVersion, "runtime", "class", c.name, "runtime-api.json",
                            classBody(c)),
                chunks)
        /\ stats' = counted("runtime", "classes", chunks)

\* One concept (lines 702-717).
RenderConcept ==
  /\ phase = "concepts"
  /\ LET c == runtimeObj.concepts[idx + 1]
         outRel == mapGet(resolverMap, "runtime:" \o c.name)
         chunks == <<rootChunk(detectedVersion, "runtime", "concept", "concept", c.name,
                               c.name, outRel, conceptBody(c))>>
     IN /\ emit("concepts", outRel,
                pageContent(detectedVersion, "runtime", "concept", c.name,
                            "runtime-api.json", conceptBody(c)),
                chunks)
        /\ stats' = counted("runtime", "concepts", chunks)

\* One event (lines 719-743).
RenderEvent ==
  /\ phase = "events"
  /\ LET e == runtimeObj.events[idx + 1]
         outRel == mapGet(resolverMap, "runtime:" \o e.name)
         chunks == <<rootChunk(detectedVersion, "runtime", "event", "event", e.name, e.name,
                               outRel, eventBody(e))>>
     IN /\ emit("events", outRel,
                pageContent(detectedVersion, "runtime", "event", e.name, "runtime-api.json",
                            eventBody(e)),
                chunks)
        /\ stats' = counted("runtime", "events", chunks)

\* One define of a stage (lines 745-777 and 928-960).
renderDefine(p, stage, d, source) ==
  LET outRel == mapGet(resolverMap, stage \o ":defines." \o d.name)
      chunks == defineChunks(detectedVersion, stage, d, outRel)
  IN /\ emit(p, outRel,
             pageContent(detectedVersion, stage, "define", d.name, source, defineBody(d)),
             chunks)
     /\ stats' = counted(stage, "defines", chunks)

RenderRuntimeDefine ==
  /\ phase = "runtimeDefines"
  /\ renderDefine("runtimeDefines", "runtime", runtimeObj.defines[idx + 1],
                  "runtime-api.json")

\* One global function (lines 779-804).
RenderGlobalFunction ==
  /\ phase = "globalFunctions"
  /\ LET f == runtimeObj.global_functions[idx + 1]
         outRel == mapGet(resolverMap, "runtime:" \o f.name)
         chunks == <<rootChunk(detectedVersion, "runtime", "global_function",
                               "global_function", f.name, f.name, outRel,
                               globalFunctionBody(f))>>
     IN /\ emit("globalFunctions", outRel,
                pageContent(detectedVersion, "runtime", "global_function", f.name,
                            "runtime-api.json", globalFunctionBody(f)),
                chunks)
        /\ stats' = counted("runtime", "global_functions", chunks)

\* One global object (lines 806-821).
RenderGlobalObject ==
  /\ phase = "globalObjects"
  /\ LET o == runtimeObj.global_objects[idx + 1]
         outRel == mapGet(resolverMap, "runtime:" \o o.name)
         chunks == <<rootChunk(detectedVersion, "runtime", "global_object", "global_object",
                               o.name, o.name, outRel, globalObjectBody(o))>>
     IN /\ emit("globalObjects", outRel,
                pageContent(detectedVersion, "runtime", "global_object", o.name,
                            "runtime-api.json", globalObjectBody(o)),
                chunks)
        /\ stats' = counted("runtime", "global_objects", chunks)

\* One of the three prototype indexes (lines 824-839).
WritePrototypeIndex ==
  /\ phase = "prototypeIndex"
  /\ writeIndex("prototypeIndex", "prototype", PrototypeIndexKinds[idx + 1],
                prototypeObj[PrototypeIndexKinds[idx + 1]], "prototype-api.json")

\* One prototype (lines 841-884).
RenderPrototype ==
  /\ phase = "prototypes"
  /\ LET pt == prototypeObj.prototypes[idx + 1]
         outRel == mapGet(resolverMap, "prototype:" \o pt.name)
         chunks == prototypeChunks(detectedVersion, pt, outRel)
     IN /\ emit("prototypes", outRel,
                pageContent(detectedVersion, "prototype", "prototype", pt.name,
                            "prototype-api.json", prototypeBody(pt)),
                chunks)
        /\ stats' = counted("prototype", "prototypes", chunks)

\* One type (lines 886-926).
RenderType ==
  /\ phase = "types"
  /\ LET t == prototypeObj.types[idx + 1]
         outRel == mapGet(resolverMap, "prototype:" \o t.name)
         chunks == typeChunks(detectedVersion, t, outRel)
     IN /\ emit("types", outRel,
                pageContent(detectedVersion, "prototype", "type", t.name,
                            "prototype-api.json", typeBody(t)),
                chunks)
        /\ stats' = counted("prototype", "types", chunks)

RenderPrototypeDefine ==
  /\ phase = "prototypeDefines"
  /\ renderDefine("prototypeDefines", "prototype", prototypeObj.defines[idx + 1],
                  "prototype-api.json")

\* chunksStream.end() whose callback resolves whatever it is called with.
CloseStreamUnchecked ==
  /\ phase = "close"
  /\ \E err \in BOOLEAN : streamState' = IF err THEN "errored" ELSE "closed"
  /\ advance("close")
  /\ UNCHANGED <<args, runtimeObj, prototypeObj, auxiliaryDir, auxiliaryBasenames, outDisk,
                 resolverMap, chunksStream, stats, genStdout, genStderr, genExit>>
  /\ UNCHANGED <<cliVars, extractVars, linkVars>>

\* chunksStream.end(callback) (lines 963-968): the stream closes, or it fails
\* to and the promise is rejected with the error of the stream.
CloseStream ==
  /\ phase = "close"
  /\ \E err \in BOOLEAN :
       IF err THEN /\ streamState' = "errored"
                   /\ GenFail("Error: write to chunks.jsonl failed")
                   /\ UNCHANGED idx
       ELSE /\ streamState' = "closed"
            /\ advance("close")
            /\ UNCHANGED <<genStderr, genExit>>
  /\ UNCHANGED <<args, runtimeObj, prototypeObj, auxiliaryDir, auxiliaryBasenames, outDisk,
                 resolverMap, chunksStream, stats, genStdout>>
  /\ UNCHANGED <<cliVars, extractVars, linkVars>>

\* The copies of the two documents, README.md and SEARCH.md (lines 971-1063).
\* A copy is kept as the document, the two guides by their title line.
copyOf(disk, name, obj) ==
  IF obj.present THEN writeFile(disk, name, [json |-> obj]) ELSE disk

WriteExtras ==
  /\ phase = "extras"
  /\ outDisk' =
       writeFile(
         writeFile(copyOf(copyOf(outDisk, "runtime-api.json", runtimeObj),
                          "prototype-api.json", prototypeObj),
                   "README.md", <<"# Factorio API Docs (LLM Export) -- " \o detectedVersion>>),
         "SEARCH.md", <<"# Search Guide -- " \o detectedVersion>>)
  /\ advance("extras")
  /\ UNCHANGED <<args, runtimeObj, prototypeObj, auxiliaryDir, auxiliaryBasenames,
                 resolverMap, chunksStream, streamState, stats, genStdout, genStderr,
                 genExit>>
  /\ UNCHANGED <<cliVars, extractVars, linkVars>>

\* manifest.json and the closing message (lines 1065-1066).
WriteManifest ==
  /\ phase = "manifest"
  /\ outDisk' = writeFile(outDisk, "manifest.json", [json |-> stats])
  /\ genStdout' = Append(genStdout, "Wrote:\n- " \o outVersionRel \o "\n- " \o outVersionRel
                                      \o "/chunks.jsonl")
  /\ advance("manifest")
  /\ UNCHANGED <<args, runtimeObj, prototypeObj, auxiliaryDir, auxiliaryBasenames,
                 resolverMap, chunksStream, streamState, stats, genStderr, genExit>>
  /\ UNCHANGED <<cliVars, extractVars, linkVars>>

NextGen ==
  \/ Start \/ BuildCatalog \/ RenderAuxiliary \/ WriteRuntimeIndex \/ RenderClass
  \/ RenderConcept \/ RenderEvent \/ RenderRuntimeDefine \/ RenderGlobalFunction
  \/ RenderGlobalObject \/ WritePrototypeIndex \/ RenderPrototype \/ RenderType
  \/ RenderPrototypeDefine \/ CloseStream \/ WriteExtras \/ WriteManifest

(***************************************************************************)
(* Inputs of the generator.                                                *)
(***************************************************************************)
Parameter(name) ==
  [name |-> name, order |-> 0, optional |-> TRUE, type |-> ArrayType(SimpleType("string")),
   description |-> "The " \o name \o "."]

ReturnValue ==
  [order |-> 0, optional |-> FALSE, type |-> SimpleType("boolean"), description |-> ""]

Attribute(name) ==
  [name |-> name, order |-> 0, read_type |-> SimpleType("uint"),
   write_type |-> SimpleType("uint"), optional |-> FALSE,
   description |-> "Attribute " \o name \o "."]

Method(name, parameters, returnValues) ==
  [name |-> name, order |-> 0, parameters |-> parameters, return_values |-> returnValues,
   description |-> "Method " \o name \o "."]

Attributes == {Attribute("x"), Attribute("X")}

Methods == {Method("x", <<>>, <<>>), Method("y", <<Parameter("n")>>, <<ReturnValue>>)}

Classes ==
  {[name |-> "C", description |-> "A class.", parent |-> parent, attributes |-> attributes,
    methods |-> methods] :
     parent \in {"", "Base"}, attributes \in SeqsUpTo(Attributes, MaxMembers),
     methods \in SeqsUpTo(Methods, MaxMembers)}

\* The values of a define, listed against their order.
Values ==
  [i \in 1..MaxMembers |->
     [name |-> "v" \o ToString(i), order |-> MaxMembers - i,
      description |-> "Value " \o ToString(i) \o "."]]

Concepts(n) ==
  [i \in 1..n |->
     [name |-> "Concept" \o ToString(i),
      description |-> "A concept of [C](runtime:C) and [v](../defines.html#defines.define1.v1).",
      hasType |-> TRUE, type |-> SimpleType("string")]]

Events(n) ==
  [i \in 1..n |-> [name |-> "on_event" \o ToString(i), description |-> "An event.",
                   data |-> <<Parameter("tick")>>, examples |-> <<"An example.">>]]

Defines(n) ==
  [i \in 1..n |-> [name |-> "define" \o ToString(i), description |-> "A define.",
                   values |-> Values]]

GlobalFunctions(n) ==
  [i \in 1..n |-> [name |-> "function" \o ToString(i), description |-> "A function.",
                   parameters |-> <<Parameter("n")>>, return_values |-> <<ReturnValue>>]]

GlobalObjects(n) ==
  [i \in 1..n |->
     [name |-> "object" \o ToString(i),
      description |-> "See [none](runtime:None), [all](classes.html) and [s](storage.html#x).",
      type |-> SimpleType("LuaObject")]]

RuntimeDocs ==
  {Absent,
   [present |-> TRUE, application_version |-> Null, classes |-> <<>>, concepts |-> <<>>,
    events |-> <<>>, defines |-> <<>>, global_functions |-> <<>>, global_objects |-> <<>>]}
    \cup {[present |-> TRUE, application_version |-> "2.0.72", classes |-> classes,
           concepts |-> Concepts(n), events |-> Events(n), defines |-> Defines(n),
           global_functions |-> GlobalFunctions(n), global_objects |-> GlobalObjects(n)] :
            classes \in SeqsUpTo(Classes, MaxClasses), n \in 0..MaxItems}

Property(name, examples) ==
  [name |-> name, order |-> 0, type |-> SimpleType("string"), optional |-> TRUE,
   override |-> FALSE, description |-> "Property " \o name \o ".", examples |-> examples]

Prototypes ==
  {[name |-> "P", description |-> "A prototype.", parent |-> "Base",
    properties |-> <<Property("type", <<>>)>>]}

Types ==
  {[name |-> "T", description |-> "A type.", hasType |-> TRUE,
    type |-> [complex_type |-> "struct"], properties |-> <<Property("type", <<>>)>>],
   [name |-> "U", description |-> "A type.", hasType |-> FALSE, type |-> SimpleType(""),
    properties |-> <<Property("kind", <<"An example.">>)>>]}

PrototypeDocs ==
  {Absent}
    \cup {[present |-> TRUE, application_version |-> "2.0.72", prototypes |-> prototypes,
           types |-> types, defines |-> Defines(Len(prototypes))] :
            prototypes \in SeqsUpTo(Prototypes, MaxItems), types \in SeqsUpTo(Types, MaxItems)}

GenArgs ==
  {DefaultArgs,
   [DefaultArgs EXCEPT !.outDir = "out", !.force = TRUE],
   [DefaultArgs EXCEPT !.only = <<"runtime">>],
   [DefaultArgs EXCEPT !.only = <<"prototype", "auxiliary">>],
   [DefaultArgs EXCEPT !.version = "1.1.110"]}

AuxiliaryDirs == {NoDirectory, [exists |-> TRUE, names |-> <<"storage.html", "notes.txt">>]}

Disks == {EmptyDisk, [exists |-> TRUE, files |-> ("old.md" :> <<"# Old">>)]}

(***************************************************************************)
(* Inputs of the retrieval process.                                        *)
(***************************************************************************)
DefaultLimit == 10

NoFlags == [version |-> Null, limit |-> DefaultLimit, stage |-> Null, kind |-> Null,
            name |-> Null, member |-> Null]

OneVersionRoot == <<[name |-> "1.0.0", isDirectory |-> TRUE]>>

NoSymbols == [exists |-> FALSE, entries |-> <<>>]

\* The retrieval process does not run.
ExtractIdle ==
  /\ extractMarkdown = "" /\ extractAnchor = "" /\ slugCounts = <<>> /\ extractOut = <<>>
  /\ htmlOut = Null

LinkIdle ==
  /\ linkMd = "" /\ linkFrom = "" /\ linkTarget = "" /\ linkResolved = <<>>
  /\ linkConverted = <<>>

\* The value of parsed before parseArgs has run, and in the specifications
\* that start behind it.
NotParsed == [state |-> "none", cmd |-> Null, positionals |-> <<>>, flags |-> <<>>,
              endOfFlags |-> FALSE, error |-> Null]

CliIdle ==
  /\ argv = <<>> /\ parsed = NotParsed
  /\ cmd = Null /\ flags = NoFlags /\ positional = "" /\ entries = <<>>
  /\ chunksJsonl = <<>> /\ mdFiles = <<>> /\ symbols = NoSymbols /\ pc = "idle"
  /\ pos = 0 /\ hits = <<>> /\ stdout = <<>> /\ stderr = <<>> /\ exitCode = 0

InitGen ==
  /\ CliIdle /\ ExtractIdle /\ LinkIdle
  /\ args \in GenArgs
  /\ runtimeObj \in RuntimeDocs
  /\ prototypeObj \in PrototypeDocs
  /\ auxiliaryDir \in AuxiliaryDirs
  /\ outDisk \in Disks
  /\ auxiliaryBasenames = <<>> /\ phase = "start" /\ idx = 0 /\ resolverMap = <<>>
  /\ chunksStream = <<>> /\ streamState = "none" /\ stats = Null
  /\ genStdout = <<>> /\ genStderr = <<>> /\ genExit = 0

SpecGen == InitGen /\ [][NextGen]_vars

\* The generator does not run.
GenIdle ==
  /\ args = DefaultArgs /\ runtimeObj = Absent /\ prototypeObj = Absent
  /\ auxiliaryDir = NoDirectory /\ auxiliaryBasenames = <<>> /\ outDisk = EmptyDisk
  /\ phase = "idle" /\ idx = 0 /\ resolverMap = <<>> /\ chunksStream = <<>>
  /\ streamState = "none" /\ stats = Null /\ genStdout = <<>> /\ genStderr = <<>>
  /\ genExit = 0

CliStart ==
  /\ argv = <<>> /\ parsed = NotParsed
  /\ pc = "start" /\ pos = 0 /\ hits = <<>> /\ stdout = <<>> /\ stderr = <<>>
  /\ exitCode = 0

Chunk(id, stage, kind, name, member, relPath, anchor, text) ==
  [valid |-> TRUE, id |-> id, version |-> "1.0.0", stage |-> stage, kind |-> kind,
   name |-> name, member |-> member, relPath |-> relPath, anchor |-> anchor,
   text |-> text]

\* A line that is no JSON or lacks a required field.
Undecodable(id) ==
  [valid |-> FALSE, id |-> id, version |-> "1.0.0", stage |-> "runtime",
   kind |-> "class", name |-> "Foo", member |-> Null, relPath |-> Null,
   anchor |-> Null, text |-> "foo"]

SearchLines ==
  {Chunk("1.0.0/runtime/class/Foo", "runtime", "class", "Foo", Null,
         "runtime/classes/Foo.md", Null, "# Foo\n\nfoo bar foo"),
   Chunk("1.0.0/runtime/class/Foo#bar", "runtime", "class_method", "Foo", "bar",
         "runtime/classes/Foo.md", "bar", "Bar baz"),
   Chunk("1.0.0/prototype/type/Baz", "Prototype", "type", "Baz", Null,
         "prototype/types/Baz.md", Null, "bar"),
   Chunk("1.0.0/auxiliary/x", "auxiliary", "auxiliary", "x", Null, Null, Null,
         "a a a a a a a a a a a a a a a a a a a a a"),
   Undecodable("1.0.0/runtime/class/Foo")}

\* The lines of a search and a second record with the id of the first.
GetLines ==
  SearchLines
    \cup {Chunk("1.0.0/runtime/class/Foo", "runtime", "class", "Foo", Null,
                "runtime/classes/Foo.md", Null, "Foo")}

Queries == {"foo", " BAR ", "a", ""}

FilterFlags ==
  {NoFlags,
   [NoFlags EXCEPT !.stage = "prototype"],
   [NoFlags EXCEPT !.stage = "Runtime, auxiliary"],
   [NoFlags EXCEPT !.kind = "class", !.name = "foo"],
   [NoFlags EXCEPT !.member = "bar"],
   [NoFlags EXCEPT !.stage = "", !.kind = ","]}

SearchFlags ==
  FilterFlags
    \cup {[f EXCEPT !.limit = n] :
            f \in {NoFlags, [NoFlags EXCEPT !.stage = "Runtime, auxiliary"]},
            n \in 1..MaxLimit}
    \cup {[NoFlags EXCEPT !.limit = 0], [NoFlags EXCEPT !.version = "9.9.9"]}

InitSearch ==
  /\ GenIdle /\ CliStart /\ ExtractIdle /\ LinkIdle
  /\ cmd = "search"
  /\ flags \in SearchFlags
  /\ positional \in Queries
  /\ entries = OneVersionRoot
  /\ chunksJsonl \in SeqsUpTo(SearchLines, MaxChunks)
  /\ mdFiles = <<>>
  /\ symbols = NoSymbols

NextSearch == SearchStart \/ SearchStep \/ SearchEnd

SpecSearch == InitSearch /\ [][NextSearch]_vars

GetFlags == {NoFlags, [NoFlags EXCEPT !.limit = 0], [NoFlags EXCEPT !.version = "9.9.9"]}

GetIds == {"1.0.0/runtime/class/Foo", " 1.0.0/auxiliary/x ", "1.0.0/runtime/class/foo",
           "1.0.0/none", ""}

InitGet ==
  /\ GenIdle /\ CliStart /\ ExtractIdle /\ LinkIdle
  /\ cmd = "get"
  /\ flags \in GetFlags
  /\ positional \in GetIds
  /\ entries = OneVersionRoot
  /\ chunksJsonl \in SeqsUpTo(GetLines, MaxChunks)
  /\ mdFiles = <<>>
  /\ symbols = NoSymbols

NextGet == Get

SpecGet == InitGet /\ [][NextGet]_vars

DirEntries ==
  {[name |-> n, isDirectory |-> TRUE] :
     n \in {"2.0.9", "2.0.71", "10.0.0", "2.0.09", "2.0", "1.2.3.4", "v2.0.9"}}
    \cup {[name |-> "1.1.110", isDirectory |-> FALSE]}

\* readdir returns every name once, in no particular order.
Listings ==
  {l \in SeqsUpTo(DirEntries, MaxDirs) :
     \A i, j \in 1..Len(l) : i # j => l[i].name # l[j].name}

InitVersions ==
  /\ GenIdle /\ CliStart /\ ExtractIdle /\ LinkIdle
  /\ cmd = "versions"
  /\ flags = NoFlags
  /\ positional = ""
  /\ entries \in Listings
  /\ chunksJsonl = <<>>
  /\ mdFiles = <<>>
  /\ symbols = NoSymbols

NextVersions == Versions

SpecVersions == InitVersions /\ [][NextVersions]_vars

(***************************************************************************)
(* Claims about search (checked under SpecSearch).                         *)
(***************************************************************************)
Query == toLowerCase(trim(positional))

Contains(h, n) == \E i \in 1..(Len(h) - Len(n) + 1) : SubSeq(h, i, i + Len(n) - 1) = n

\* The score the specification gives a record.
SpecScore(chunk, q) ==
  (IF Contains(toLowerCase(chunk.id), q) THEN 20 ELSE 0)
  + (IF Contains(toLowerCase(chunk.name), q) THEN 10 ELSE 0)
  + (IF chunk.member # Null /\ Contains(toLowerCase(chunk.member), q) THEN 8 ELSE 0)
  + 2 * Min(20, countOccurrences(toLowerCase(chunk.text), q))

\* The hit h was made from the record c.
HitFrom(h, c) ==
  /\ c.valid
  /\ h.id = c.id /\ h.stage = c.stage /\ h.kind = c.kind /\ h.name = c.name
  /\ h.member = c.member /\ h.relPath = c.relPath /\ h.anchor = c.anchor

\* The filter flag names a non-empty set / the field is in that set.
FilterGiven(value) ==
  value # Null /\ \E i \in 1..Len(split(value, ",")) : trim(split(value, ",")[i]) # ""

InFilter(field, value) ==
  \E i \in 1..Len(split(value, ",")) :
    /\ trim(split(value, ",")[i]) # ""
    /\ toLowerCase(trim(split(value, ",")[i])) = toLowerCase(IF field = Null THEN "" ELSE field)

Admitted(c) ==
  /\ FilterGiven(flags.stage) => InFilter(c.stage, flags.stage)
  /\ FilterGiven(flags.kind) => InFilter(c.kind, flags.kind)
  /\ FilterGiven(flags.name) => InFilter(c.name, flags.name)
  /\ FilterGiven(flags.member) => InFilter(c.member, flags.member)

\* The hits of all admitted, positively scored records among the first n
\* lines, in the order of the lines.
RECURSIVE AllHits(_)
AllHits(n) ==
  IF n = 0 THEN <<>>
  ELSE LET c == chunksJsonl[n]
       IN AllHits(n - 1)
            \o (IF c.valid /\ Admitted(c) /\ SpecScore(c, Query) > 0
                  THEN <<hitOf(c, Query)>> ELSE <<>>)

Searching == cmd = "search" /\ pc \in {"scan", "done"}

\* C5: every hit carries the score 20 [id] + 10 [name] + 8 [member] +
\* 2 * min(20, occurrenceCount) of the record it was made from, and that score
\* is positive; a record that scores 0 yields no hit.
C5_ScoreFormula ==
  Searching =>
    /\ \A i \in 1..Len(hits) :
         /\ hits[i].score > 0
         /\ \E k \in 1..pos :
              /\ HitFrom(hits[i], chunksJsonl[k])
              /\ hitOf(chunksJsonl[k], Query).snippet = hits[i].snippet
              /\ hits[i].score = SpecScore(chunksJsonl[k], Query)
    /\ pc = "done" => stdout = hits

C5_Witness ==
  /\ Searching /\ pc = "done" /\ Len(stdout) = 2
  /\ stdout[1].score = 60 /\ stdout[2].score = 32

C7_Filters ==
  Searching =>
    /\ \A i \in 1..Len(hits) :
         /\ FilterGiven(flags.stage) => InFilter(hits[i].stage, flags.stage)
         /\ FilterGiven(flags.kind) => InFilter(hits[i].kind, flags.kind)
         /\ FilterGiven(flags.name) => InFilter(hits[i].name, flags.name)
         /\ FilterGiven(flags.member) => InFilter(hits[i].member, flags.member)
    /\ Len(hits) < flags.limit =>
         \A k \in 1..pos :
           LET c == chunksJsonl[k]
           IN (c.valid /\ Admitted(c) /\ SpecScore(c, Query) > 0) =>
                \E i \in 1..Len(hits) : hits[i] = hitOf(c, Query)

C7_Witness ==
  /\ Searching /\ pc = "done" /\ pos = 2
  /\ flags.stage = "prototype"
  /\ Len(stdout) = 1 /\ stdout[1].stage = "Prototype"
  /\ \E k \in 1..2 : /\ chunksJsonl[k].valid /\ chunksJsonl[k].stage = "runtime"
                     /\ SpecScore(chunksJsonl[k], Query) > stdout[1].score

(***************************************************************************)
(* Claims about versions (checked under SpecVersions).                     *)
(***************************************************************************)
\* Three non-empty runs of decimal digits separated by two dots.
ThreeDecimalNumbers(name) ==
  /\ Cardinality({i \in 1..Len(name) : Char(name, i) = "."}) = 2
  /\ \A i \in 1..Len(name) : Char(name, i) = "." \/ IsDigit(Char(name, i))
  /\ name # "" /\ Char(name, 1) # "." /\ Char(name, Len(name)) # "."
  /\ \A i \in 1..(Len(name) - 1) : ~(Char(name, i) = "." /\ Char(name, i + 1) = ".")

Triple(name) == [i \in 1..3 |-> Number(split(name, ".")[i])]

TripleLeq(a, b) ==
  \/ Triple(a)[1] < Triple(b)[1]
  \/ Triple(a)[1] = Triple(b)[1] /\ Triple(a)[2] < Triple(b)[2]
  \/ Triple(a)[1] = Triple(b)[1] /\ Triple(a)[2] = Triple(b)[2]
       /\ Triple(a)[3] <= Triple(b)[3]

VersionDirs == {e.name : e \in {d \in Range(entries) : d.isDirectory /\ ThreeDecimalNumbers(d.name)}}

\* C8: versions prints exactly the directories named by three decimal
\* numbers, ascending by the numeric triple, and fails when there is none.
C8_VersionsOrder ==
  (cmd = "versions" /\ pc # "start") =>
    IF VersionDirs = {}
      THEN pc = "failed" /\ exitCode = 1 /\ stdout = <<>> /\ stderr # <<>>
      ELSE /\ pc = "done" /\ exitCode = 0
           /\ Range(stdout) = VersionDirs
           /\ Len(stdout) = Cardinality(VersionDirs)
           /\ \A i, j \in 1..Len(stdout) : i < j => TripleLeq(stdout[i], stdout[j])

C8_Witness ==
  /\ cmd = "versions" /\ pc = "done"
  /\ stdout = <<"2.0.9", "2.0.71", "10.0.0">>
  /\ entries[1].name = "10.0.0" /\ entries[2].name = "2.0.71"

(***************************************************************************)
(* Claims about get (checked under SpecGet).                               *)
(***************************************************************************)
GetRan == cmd = "get" /\ pc # "start" /\ preludeError(flags, entries) = Null

\* The lines that decode to a record with this id.
LinesWithId(id) == {k \in 1..Len(chunksJsonl) : chunksJsonl[k].valid /\ chunksJsonl[k].id = id}

GetAnswers(id) ==
  IF LinesWithId(id) = {}
    THEN pc = "failed" /\ exitCode = 1 /\ stdout = <<>> /\ stderr # <<>>
    ELSE /\ pc = "done" /\ exitCode = 0
         /\ \E k \in LinesWithId(id) :
              /\ \A j \in LinesWithId(id) : k <= j
              /\ stdout = <<chunksJsonl[k]>>

\* C9: get prints the first record, in the order of the lines, whose id
\* equals the id asked for (the command's argument, which main() trims), and
\* fails with exit code 1 and no output when no record has that id.
C9_GetFirstById == GetRan => GetAnswers(trim(positional))

C9_Witness ==
  /\ GetRan /\ pc = "done" /\ Len(chunksJsonl) = 2
  /\ LinesWithId(trim(positional)) = {1, 2}
  /\ chunksJsonl[1] # chunksJsonl[2]
  /\ stdout = <<chunksJsonl[1]>>

(***************************************************************************)
(* Inputs of open, and the claims about it (checked under SpecOpen).       *)
(***************************************************************************)
FooPath == "runtime/classes/Foo.md"

FooPage ==
  "# Foo\n\nDesc.\n\n## Methods\n\n### bar\n\nText of bar.\n\n### baz\n\nMore.\n"

OpenLines ==
  {Chunk("1.0.0/runtime/class/Foo", "runtime", "class", "Foo", Null, FooPath, Null,
         "# Foo\n\nDesc.\n"),
   Chunk("1.0.0/runtime/class/Foo#bar", "runtime", "class_method", "Foo", "bar",
         FooPath, "bar", "# Foo.bar (method)\n\nText of bar.\n"),
   Chunk("1.0.0/runtime/class/Foo#zap", "runtime", "class_method", "Foo", "zap",
         FooPath, "zap", "# Foo.zap (method)\n\nGone.\n"),
   Chunk("1.0.0/auxiliary/x", "auxiliary", "auxiliary", "x", Null, Null, Null, "An x.")}

SymbolEntry(c) ==
  [id |-> c.id, stage |-> c.stage, kind |-> c.kind, name |-> c.name,
   member |-> c.member, relPath |-> c.relPath, anchor |-> c.anchor]

\* stage:kind:name[.member]
SymbolKey(c) ==
  c.stage \o ":" \o c.kind \o ":" \o c.name
    \o (IF c.member = Null THEN "" ELSE "." \o c.member)

FooSymbols ==
  [exists |-> TRUE,
   entries |-> [key \in {SymbolKey(c) : c \in {l \in OpenLines : l.relPath # Null}} |->
                  SymbolEntry(CHOOSE c \in OpenLines : SymbolKey(c) = key)]]

\* relPath#anchor, or relPath alone for a chunk without anchor.
PathForm(c) == c.relPath \o (IF c.anchor = Null THEN "" ELSE "#" \o c.anchor)

OpenTargets ==
  {c.id : c \in OpenLines}
    \cup {PathForm(c) : c \in {l \in OpenLines : l.relPath # Null}}
    \cup DOMAIN FooSymbols.entries
    \cup {"", "Foo.md", "runtime/classes/Foo.md#Methods", "1.0.0/none", " nothing "}

InitOpen ==
  /\ GenIdle /\ CliStart /\ ExtractIdle /\ LinkIdle
  /\ cmd = "open"
  /\ flags \in {NoFlags, [NoFlags EXCEPT !.limit = 0]}
  /\ positional \in OpenTargets
  /\ entries = OneVersionRoot
  /\ chunksJsonl \in SeqsUpTo(OpenLines, MaxChunks)
  /\ mdFiles \in {<<>>, [path \in {FooPath} |-> FooPage]}
  /\ symbols \in {NoSymbols, FooSymbols}

NextOpen == Open

SpecOpen == InitOpen /\ [][NextOpen]_vars

OpenRan == cmd = "open" /\ pc # "start" /\ preludeError(flags, entries) = Null

\* The process ended the way open on this target ends.
EndsLike(target) ==
  LET r == openResult(target, chunksJsonl, mdFiles, symbols)
  IN IF r.error # Null THEN pc = "failed" /\ stdout = <<>>
     ELSE pc = "done" /\ stdout = <<r.out>>

\* C10: open on the id of a chunk that has a page path prints what open
\* prints on the chunk's relPath#anchor form and on a symbols key of the chunk.
C10_OpenSameInThreeForms ==
  OpenRan =>
    \A k \in 1..Len(chunksJsonl) :
      LET c == chunksJsonl[k]
      IN (c.valid /\ c.relPath # Null /\ trim(positional) = c.id
            /\ findChunkById(chunksJsonl, c.id) = k) =>
           /\ EndsLike(PathForm(c))
           /\ symbols.exists =>
                \A key \in DOMAIN symbols.entries :
                  symbols.entries[key].id = c.id => EndsLike(key)

\* The process ended with this outcome of open.
EndsAs(r) ==
  IF r.error # Null THEN pc = "failed" /\ stdout = <<>>
  ELSE pc = "done" /\ stdout = <<r.out>>

\* The target has the look of a page path.
PathShaped(t) ==
  \/ Contains(t, "/") \/ Contains(t, "#")
  \/ Len(t) >= 3 /\ SubSeq(t, Len(t) - 2, Len(t)) = ".md"

\* The target has the shape <d>.<d>.<d>/... of a chunk id.
IdShaped(t) ==
  \E i \in 2..(Len(t) - 1) :
    Char(t, i) = "/" /\ ThreeDecimalNumbers(SubSeq(t, 1, i - 1))

\* The three branches of open, as conditions on the target.
ByPath(t) == PathShaped(t) /\ ~IdShaped(t)
ByTable(t) == ~ByPath(t) /\ symbols.exists /\ t \in DOMAIN symbols.entries
ById(t) == ~ByPath(t) /\ ~(symbols.exists /\ t \in DOMAIN symbols.entries)

\* The part of a target before its first # and the part after it.
PathPart(t) ==
  IF Contains(t, "#")
    THEN SubSeq(t, 1, (CHOOSE i \in 1..Len(t) :
                         Char(t, i) = "#" /\ \A j \in 1..(i - 1) : Char(t, j) # "#") - 1)
    ELSE t

AnchorPart(t) ==
  IF Contains(t, "#") /\ Len(PathPart(t)) + 1 < Len(t)
    THEN SubSeq(t, Len(PathPart(t)) + 2, Len(t))
    ELSE Null

\* The records of chunks.jsonl that carry this id.
LinesOfId(t) == {k \in 1..Len(chunksJsonl) : chunksJsonl[k].valid /\ chunksJsonl[k].id = t}

\* C11: open takes a target that looks like a path and not like a chunk id
\* as a page path with an optional anchor only; otherwise a target that is a
\* key of the symbols table through the table only; otherwise it looks the
\* target up as a chunk id and takes the section from the page path and the
\* anchor of that chunk. Exactly one of the three handles a target.
C11_OpenDispatch ==
  (OpenRan /\ trim(positional) # "") =>
    LET t == trim(positional)
    IN /\ Cardinality({b \in {"path", "table", "id"} :
                         \/ b = "path" /\ ByPath(t)
                         \/ b = "table" /\ ByTable(t)
                         \/ b = "id" /\ ById(t)}) = 1
       /\ ByPath(t) => EndsAs(sectionOrPage(mdFiles, PathPart(t), AnchorPart(t)))
       /\ ByTable(t) =>
            EndsAs(sectionOrPage(mdFiles, symbols.entries[t].relPath,
                                 symbols.entries[t].anchor))
       /\ ById(t) =>
            IF LinesOfId(t) = {} THEN pc = "failed" /\ stdout = <<>>
            ELSE \E k \in LinesOfId(t) : EndsAs(sectionOrChunkText(mdFiles, chunksJsonl[k]))

\* open printed the section of a chunk found by an id that holds / and #.
C11_Witness ==
  /\ OpenRan /\ pc = "done"
  /\ positional = "1.0.0/runtime/class/Foo#bar"
  /\ ById(positional) /\ PathShaped(positional)
  /\ stdout = <<"### bar\n\nText of bar.\n">>

(***************************************************************************)
(* extractMarkdownSectionByAnchor, called again and again on one page.     *)
(***************************************************************************)
MaxLines == 3
MaxCalls == 2

\* A call that finds the Map slugCounts as counts.
extractCall(counts) ==
  /\ Len(extractOut) < MaxCalls
  /\ LET r == extractWithCounts(extractMarkdown, extractAnchor, counts)
     IN /\ extractOut' = Append(extractOut, r.out)
        /\ slugCounts' = r.slugCounts
  /\ UNCHANGED <<extractMarkdown, extractAnchor, htmlOut>>
  /\ UNCHANGED <<genVars, cliVars, linkVars>>

\* A call that goes on with the Map of the call before.
ExtractKeepingCounts == extractCall(slugCounts)

\* const slugCounts = new Map()
Extract == extractCall(<<>>)

PageLines == {"# A", "## a", "### B", "text", "## ", ""}

Anchors == {"a", "A", " a-1 ", " ", "x"}

InitExtract ==
  /\ GenIdle /\ CliIdle /\ LinkIdle
  /\ extractMarkdown \in {join(ls, "\n") : ls \in SeqsUpTo(PageLines, MaxLines)}
  /\ extractAnchor \in Anchors
  /\ slugCounts = <<>>
  /\ extractOut = <<>>
  /\ htmlOut = Null

NextExtract == Extract

SpecExtract == InitExtract /\ [][NextExtract]_vars

\* The lines of the page.
Lines == split(extractMarkdown, "\n")

\* Line i is a heading with a text: one to six #, white space, a text.
IsHeading(i) == headingLevel(Lines[i]) > 0

\* Line i ends a section of this level: one to six # and white space.
EndsLevel(i, level) ==
  headingPrefixLevel(Lines[i]) > 0 /\ headingPrefixLevel(Lines[i]) <= level

\* The k-th heading of a base slug has the slug base-(k-1), the first the base.
SlugOfHeading(i) ==
  LET base == githubSlugBase(headingText(Lines[i]))
      k == Cardinality({j \in 1..i : IsHeading(j)
                          /\ githubSlugBase(headingText(Lines[j])) = base})
  IN IF base = "" THEN ""
     ELSE IF k = 1 THEN base
     ELSE base \o "-" \o ToString(k - 1)

\* The headings that the anchor names by text or by slug.
Named ==
  {i \in 1..Len(Lines) :
     /\ IsHeading(i)
     /\ headingText(Lines[i]) = trim(extractAnchor)
          \/ SlugOfHeading(i) = trim(extractAnchor)}

FirstNamed == CHOOSE i \in Named : \A j \in Named : i <= j

\* The line after the section of the first named heading.
SectionEnd ==
  LET later == {j \in (FirstNamed + 1)..Len(Lines) :
                  EndsLevel(j, headingLevel(Lines[FirstNamed]))}
  IN IF later = {} THEN Len(Lines) + 1
     ELSE CHOOSE j \in later : \A m \in later : j <= m

\* The section of the first named heading, without white space at its end
\* and with a line end.
NamedSection ==
  trimEnd(join(SubSeq(Lines, FirstNamed, SectionEnd - 1), "\n")) \o "\n"

\* C12: extraction returns the lines from the first heading whose text or
\* slug equals the trimmed anchor up to, not including, the next heading of
\* the same or a lower level number, or to the end of the page; it returns
\* null when the anchor is blank or no heading matches.
C12_SectionBounds ==
  Len(extractOut) >= 1 =>
    IF trim(extractAnchor) = "" \/ Named = {} THEN extractOut[1] = Null
    ELSE extractOut[1] = NamedSection

\* A section found by the text A of the second of three headings, ended by a
\* heading of the same level.
C12_Witness ==
  /\ extractMarkdown = "## a\n# A\n# A"
  /\ extractAnchor = "A"
  /\ extractOut = <<"# A\n">>

\* C13: the slug of a heading depends on the heading texts and their order
\* only, the k-th heading of a base slug being base-(k-1); the counter is new
\* in every call, so every repeated call returns the same section, and the
\* counter at the return holds the headings read in this call alone.
C13_SlugsFreshPerCall ==
  /\ \A k \in 1..Len(extractOut) : extractOut[k] = extractOut[1]
  /\ (Len(extractOut) >= 1 /\ trim(extractAnchor) # "") =>
       LET last == IF Named = {} THEN Len(Lines) ELSE FirstNamed
           read == {i \in 1..last : IsHeading(i)}
       IN /\ DOMAIN slugCounts = {githubSlugBase(headingText(Lines[i])) : i \in read}
          /\ \A b \in DOMAIN slugCounts :
               slugCounts[b] =
                 Cardinality({i \in read : githubSlugBase(headingText(Lines[i])) = b})
          /\ Named # {} =>
               \/ headingText(Lines[FirstNamed]) = trim(extractAnchor)
               \/ SlugOfHeading(FirstNamed) = trim(extractAnchor)

\* The second call found the second heading of base a by its slug a-1 again.
C13_Witness ==
  /\ extractMarkdown = "# A\n## a\ntext"
  /\ extractAnchor = " a-1 "
  /\ extractOut = <<"## a\ntext\n", "## a\ntext\n">>
  /\ slugCounts["a"] = 2

(***************************************************************************)
(* The resolver and the link converters on one text.                       *)
(***************************************************************************)
\* resolve(token) for a token of the call.
ResolveToken(tokens) ==
  /\ \E t \in tokens :
       /\ linkTarget' = t
       /\ linkResolved' = <<resolve(resolverMap, t)>>
  /\ UNCHANGED <<linkMd, linkFrom, linkConverted>>
  /\ UNCHANGED <<genVars, cliVars, extractVars>>

\* The conversion of writeSymbolMarkdown and writeChunk on the text.
ConvertText ==
  /\ linkConverted = <<>>
  /\ linkConverted' = <<convertLinks(linkMd, linkFrom, resolverMap)>>
  /\ UNCHANGED <<linkMd, linkFrom, linkTarget, linkResolved>>
  /\ UNCHANGED <<genVars, cliVars, extractVars>>

LinkRoot == "llm-docs/2.0.72"

LinkRuntime ==
  CHOOSE d \in RuntimeDocs :
    d.present /\ d.application_version # Null /\ Len(d.classes) = 1 /\ Len(d.defines) = 1

LinkPrototype ==
  CHOOSE d \in PrototypeDocs :
    d.present /\ Len(d.prototypes) = 1 /\ Len(d.types) = 1

\* The resolver map of a run without symbols, of a run with both documents
\* and an auxiliary page, and of a run with the prototype document alone.
LinkCatalogs ==
  {catalogOf(LinkRoot, <<>>, Absent, Absent),
   catalogOf(LinkRoot, <<"storage">>, LinkRuntime, LinkPrototype),
   catalogOf(LinkRoot, <<"storage">>, Absent, LinkPrototype)}

LinkingPages ==
  {pagePath(LinkRoot, "runtime/classes", "C"), pagePath(LinkRoot, "prototype/types", "T"),
   pagePath(LinkRoot, "auxiliary", "storage")}

Tokens ==
  {"runtime:C", "runtime:None", "runtime:storage", "runtime:events", "runtime:defines",
   "runtime:defines.define1", "runtime:defines.define1.v1", "runtime:defines.define1.a.b",
   "runtime:defines.none.v1", "prototype:defines.define1.v1", "prototype:T",
   "runtime:C::x", "runtime:storage::intro", "runtime:None::x", "prototype:C::x",
   "runtime:", "prototype:"}

LegacyHrefs ==
  {"defines.html#defines.define1.v1", "../defines.html#defines.define1.v1",
   "../defines.html#defines.define1", "../defines.html#defines.define1.a.b",
   "../defines.html#defines.none.v1", "defines.html#defines.none.v1",
   "classes.html", "../classes.html#top", "../concepts.html", "events.html#e",
   "../events.html", "../defines.html", "defines.html", "../prototypes.html",
   "types.html", "../types.html#t",
   "storage.html#x", "storage.html", "other.html#x",
   "../classes/C.html#m", "../classes/None.html", "https://lua.org/manual.html"}

LinkText(href) == "See [l](" \o href \o ") now."

InitLinks ==
  /\ CliIdle /\ ExtractIdle
  /\ args = DefaultArgs /\ runtimeObj = Absent /\ prototypeObj = Absent
  /\ auxiliaryDir = NoDirectory /\ auxiliaryBasenames = <<>> /\ outDisk = EmptyDisk
  /\ phase = "idle" /\ idx = 0 /\ chunksStream = <<>>
  /\ streamState = "none" /\ stats = Null /\ genStdout = <<>> /\ genStderr = <<>>
  /\ genExit = 0
  /\ resolverMap \in LinkCatalogs
  /\ linkFrom \in LinkingPages
  /\ linkMd \in {LinkText(h) : h \in Tokens \cup LegacyHrefs}
  /\ linkTarget = "" /\ linkResolved = <<>> /\ linkConverted = <<>>

NextLinks == ResolveToken(Tokens) \/ ConvertText

SpecLinks == InitLinks /\ [][NextLinks]_vars

\* The Catalog has an entry of this key; the page of the entry.
HasEntry(key) == \E i \in 1..Len(resolverMap) : resolverMap[i].key = key

EntryPage(key) ==
  resolverMap[CHOOSE i \in 1..Len(resolverMap) : resolverMap[i].key = key].relPath

\* The stage and the rest of a token stage:rest of one of the two stages.
TokenStage(t) ==
  IF Len(t) >= 8 /\ SubSeq(t, 1, 8) = "runtime:" THEN "runtime"
  ELSE IF Len(t) >= 10 /\ SubSeq(t, 1, 10) = "prototype:" THEN "prototype"
  ELSE ""

TokenRest(t) == SubSeq(t, Len(TokenStage(t)) + 2, Len(t))

\* The position where the text n first stands in h.
FirstAt(h, n) ==
  CHOOSE i \in 1..(Len(h) - Len(n) + 1) :
    /\ SubSeq(h, i, i + Len(n) - 1) = n
    /\ \A j \in 1..(i - 1) : SubSeq(h, j, j + Len(n) - 1) # n

\* What the specification says of a token of one of the two stages.
Resolved(t) ==
  LET stage == TokenStage(t)
      rest == TokenRest(t)
  IN IF rest = "" THEN Unresolved
     ELSE IF Len(rest) >= 8 /\ SubSeq(rest, 1, 8) = "defines."
       THEN LET more == SubSeq(rest, 9, Len(rest))
                group == IF Contains(more, ".")
                           THEN SubSeq(more, 1, FirstAt(more, ".") - 1) ELSE more
                key == stage \o ":defines." \o group
            IN IF ~HasEntry(key) THEN Unresolved
               ELSE [relPath |-> EntryPage(key),
                     anchor |-> IF Contains(more, ".")
                                  THEN SubSeq(more, FirstAt(more, ".") + 1, Len(more))
                                  ELSE Null]
     ELSE IF Contains(rest, "::")
       THEN LET base == SubSeq(rest, 1, FirstAt(rest, "::") - 1)
                member == SubSeq(rest, FirstAt(rest, "::") + 2, Len(rest))
            IN IF HasEntry(stage \o ":" \o base)
                 THEN [relPath |-> EntryPage(stage \o ":" \o base), anchor |-> member]
               ELSE IF HasEntry("auxiliary:" \o base)
                 THEN [relPath |-> EntryPage("auxiliary:" \o base), anchor |-> member]
               ELSE Unresolved
     ELSE IF HasEntry(t) THEN [relPath |-> EntryPage(t), anchor |-> Null]
     ELSE IF HasEntry("auxiliary:" \o rest)
       THEN [relPath |-> EntryPage("auxiliary:" \o rest), anchor |-> Null]
     ELSE Unresolved

\* C14: resolve on a token stage:rest of stage runtime or prototype gives, for
\* rest defines.Group[.more], the page of the entry of the group with the
\* further segments joined by . as anchor; for Base::Member the page of
\* stage:Base, or of the auxiliary page Base, with Member as anchor; for
\* another token the page of the entry of the whole token, or of the auxiliary
\* page rest, without anchor; and null when there is no such entry or rest is
\* empty.
C14_Resolve ==
  (linkResolved # <<>> /\ TokenStage(linkTarget) # "") =>
    linkResolved[1] = Resolved(linkTarget)

\* A define value resolved to the page of its group with the value as anchor.
C14_Witness ==
  /\ linkTarget = "runtime:defines.define1.a.b"
  /\ linkResolved = <<[relPath |-> "llm-docs/2.0.72/runtime/defines/define1.md",
                       anchor |-> "a.b"]>>

\* The link target of the text, its part before the first # and the part
\* from the # on.
Href == SubSeq(linkMd, Len("See [l](") + 1, Len(linkMd) - Len(") now."))

HrefPath == IF Contains(Href, "#") THEN SubSeq(Href, 1, FirstAt(Href, "#") - 1) ELSE Href

HrefHash == IF Contains(Href, "#") THEN SubSeq(Href, FirstAt(Href, "#"), Len(Href)) ELSE ""

\* The path without a leading ../
BarePath ==
  IF Len(HrefPath) >= 3 /\ SubSeq(HrefPath, 1, 3) = "../"
    THEN SubSeq(HrefPath, 4, Len(HrefPath)) ELSE HrefPath

\* The link is a legacy link to a define: defines.html#defines.Group[.Value]
IsDefineLink ==
  /\ BarePath = "defines.html"
  /\ Len(HrefHash) >= 9 /\ SubSeq(HrefHash, 1, 9) = "#defines."

\* Group[.Value], the group and the segments after the group.
DefinePath == SubSeq(HrefHash, 10, Len(HrefHash))

DefineGroup ==
  IF Contains(DefinePath, ".") THEN SubSeq(DefinePath, 1, FirstAt(DefinePath, ".") - 1)
  ELSE DefinePath

DefineAnchor ==
  IF Contains(DefinePath, ".")
    THEN "#" \o SubSeq(DefinePath, FirstAt(DefinePath, ".") + 1, Len(DefinePath))
  ELSE ""

\* The stage of the linking page.
LinkingStage == IF Contains(linkFrom, "/prototype/") THEN "prototype" ELSE "runtime"

\* C15: a legacy link defines.html#defines.Group[.Value], with or without a
\* leading ../, becomes a relative link to the page of the define Group in the
\* stage of the linking page, the segments after the group as anchor, whenever
\* the Catalog has the group.
C15_DefineLinks ==
  (linkConverted # <<>> /\ IsDefineLink
     /\ HasEntry(LinkingStage \o ":defines." \o DefineGroup)) =>
    linkConverted[1] =
      LinkText(relLink(linkFrom, EntryPage(LinkingStage \o ":defines." \o DefineGroup))
                 \o DefineAnchor)

\* The stage of an overview page.
OverviewStage(kind) == IF kind \in {"prototypes", "types"} THEN "prototype" ELSE "runtime"

\* The link is a legacy link to the overview page of this kind.
IsOverviewLink(kind) == BarePath = kind \o ".html" /\ ~IsDefineLink

\* The link is a legacy link to another page name.html, without directory.
IsBareNameLink(name) ==
  /\ HrefPath = name \o ".html"
  /\ name \notin OverviewKinds

\* C16: a legacy link to an overview page (classes.html, concepts.html,
\* events.html, defines.html, prototypes.html, types.html, with or without a
\* leading ../) becomes a link to the index page of that kind, a link to
\* another name.html a link to the auxiliary page name when the Catalog has
\* it; the #hash is kept.
C16_OverviewAndAuxiliaryLinks ==
  linkConverted # <<>> =>
    /\ \A kind \in OverviewKinds :
         IsOverviewLink(kind) =>
           linkConverted[1] =
             LinkText(relLink(linkFrom,
                              pagePath(LinkRoot, OverviewStage(kind) \o "/" \o kind, "index"))
                        \o HrefHash)
    /\ \A name \in {"storage", "other"} :
         (IsBareNameLink(name) /\ HasEntry("auxiliary:" \o name)) =>
           linkConverted[1] =
             LinkText(relLink(linkFrom, EntryPage("auxiliary:" \o name)) \o HrefHash)

\* The token that a link stands for: the symbolic token, the define group,
\* the overview kind, the symbol of a page of the old site, the auxiliary
\* page; "" for a link that stands for none.
LinkToken ==
  IF TokenStage(Href) # "" THEN Href
  ELSE IF IsDefineLink THEN LinkingStage \o ":defines." \o DefineGroup
  ELSE IF \E kind \in OverviewKinds : IsOverviewLink(kind)
    THEN LET kind == CHOOSE k \in OverviewKinds : IsOverviewLink(k)
         IN OverviewStage(kind) \o ":" \o kind
  ELSE IF \E name \in {"C", "None"} : HrefPath = "../classes/" \o name \o ".html"
    THEN "runtime:" \o (CHOOSE name \in {"C", "None"} :
                          HrefPath = "../classes/" \o name \o ".html")
  ELSE IF \E name \in {"storage", "other"} : IsBareNameLink(name)
    THEN "auxiliary:" \o (CHOOSE name \in {"storage", "other"} : IsBareNameLink(name))
  ELSE ""

\* C17: a link whose token has no Catalog entry, symbolic or legacy, leaves
\* the two converters as it came, the text around it too.
C17_UnresolvedLinkKept ==
  (linkConverted # <<>> /\ (LinkToken = "" \/ resolve(resolverMap, LinkToken) = Unresolved)) =>
    linkConverted[1] = linkMd

\* A legacy link to the page of a class that the Catalog lacks came out as
\* it was.
C17_Witness ==
  /\ linkMd = "See [l](../classes/None.html) now."
  /\ resolve(resolverMap, "runtime:None") = Unresolved
  /\ HasEntry("runtime:C")
  /\ linkConverted = <<linkMd>>

(***************************************************************************)
(* The generated corpus.                                                   *)
(***************************************************************************)
\* The page that the generator wrote for a chunk, as the text in the file.
PageOf(c) == textOf(outDisk.files[relativeToRoot(c.relMarkdownPath)])

\* The lines of a chunk's text below its title line that are not blank.
RenderedLines(c) == {c.text[k] : k \in {j \in 2..Len(c.text) : trim(c.text[j]) # ""}}

\* C1: the chunk records appended in one run have pairwise distinct ids.
C1_DistinctIds ==
  \A i, j \in 1..Len(chunksStream) :
    i # j => chunksStream[i].id # chunksStream[j].id

\* C2: for every chunk with a page path and an anchor, the section that
\* extractMarkdownSectionByAnchor finds in the generated page with that anchor
\* is not null, not empty, and holds the rendered lines of the chunk.
C2_AnchorFindsSection ==
  \A i \in 1..Len(chunksStream) :
    LET c == chunksStream[i]
    IN ("anchor" \in DOMAIN c /\ "relMarkdownPath" \in DOMAIN c) =>
         LET section == extractMarkdownSectionByAnchor(PageOf(c), c.anchor)
         IN /\ section # Null
            /\ section # ""
            /\ \A line \in RenderedLines(c) : includes(section, line)

\* C3: every chunk record has a field relPath, the path of its page relative
\* to the version root, whatever the output directory is.
C3_RelPathField ==
  \A i \in 1..Len(chunksStream) :
    LET c == chunksStream[i]
    IN /\ "relPath" \in DOMAIN c
       /\ c.relPath \in DOMAIN outDisk.files
       /\ ~startsWith(c.relPath, args.outDir \o "/")

\* The canonical key of a chunk: stage:kind:name[.member].
CanonicalKey(c) ==
  c.stage \o ":" \o c.kind \o ":" \o c.name
    \o (IF "member" \in DOMAIN c THEN "." \o c.member ELSE "")

\* C4: after a successful run the output holds a symbols table with, for
\* every chunk of a symbol with a page, an entry under the canonical key that
\* holds the chunk's id, stage, kind and name.
C4_SymbolsTableWritten ==
  phase = "done" =>
    /\ "symbols.json" \in DOMAIN outDisk.files
    /\ \A i \in 1..Len(chunksStream) :
         LET c == chunksStream[i]
             table == outDisk.files["symbols.json"].json
         IN c.stage # "auxiliary" =>
              /\ CanonicalKey(c) \in DOMAIN table
              /\ table[CanonicalKey(c)].id = c.id
              /\ table[CanonicalKey(c)].stage = c.stage
              /\ table[CanonicalKey(c)].kind = c.kind
              /\ table[CanonicalKey(c)].name = c.name

(***************************************************************************)
(* Runs of the generator on documents that grow by one symbol of each      *)
(* collection at a time.                                                   *)
(***************************************************************************)
RunClasses(n) ==
  [i \in 1..Min(n, MaxClasses) |->
     [name |-> IF i = 1 THEN "C" ELSE "C" \o ToString(i), description |-> "A class.",
      parent |-> "Base",
      attributes |-> [j \in 1..MaxMembers |-> Attribute("a" \o ToString(j))],
      methods |-> [j \in 1..MaxMembers |->
                     Method("m" \o ToString(j), <<Parameter("n")>>, <<ReturnValue>>)]]]

RunRuntimeDocs ==
  {d \in RuntimeDocs : ~d.present \/ d.application_version = Null}
    \cup {[present |-> TRUE, application_version |-> "2.0.72", classes |-> RunClasses(n),
           concepts |-> Concepts(n), events |-> Events(n), defines |-> Defines(n),
           global_functions |-> GlobalFunctions(n), global_objects |-> GlobalObjects(n)] :
            n \in 0..MaxItems}

RunPrototypeDocs ==
  {Absent}
    \cup {[present |-> TRUE, application_version |-> "2.0.72",
           prototypes |-> [i \in 1..n |->
                             [name |-> "P" \o ToString(i), description |-> "A prototype.",
                              parent |-> "Base",
                              properties |-> <<Property("type", <<>>)>>]],
           types |-> [i \in 1..n |->
                        [name |-> IF i = 1 THEN "T" ELSE "T" \o ToString(i),
                         description |-> "A type.", hasType |-> TRUE,
                         type |-> [complex_type |-> "struct"],
                         properties |-> <<Property("kind", <<"An example.">>)>>]],
           defines |-> Defines(n)] :
            n \in 0..MaxItems}

InitRun ==
  /\ CliIdle /\ ExtractIdle /\ LinkIdle
  /\ args \in GenArgs
  /\ runtimeObj \in RunRuntimeDocs
  /\ prototypeObj \in RunPrototypeDocs
  /\ auxiliaryDir \in AuxiliaryDirs
  /\ outDisk \in Disks
  /\ auxiliaryBasenames = <<>> /\ phase = "start" /\ idx = 0 /\ resolverMap = <<>>
  /\ chunksStream = <<>> /\ streamState = "none" /\ stats = Null
  /\ genStdout = <<>> /\ genStderr = <<>> /\ genExit = 0

SpecRun == InitRun /\ [][NextGen]_vars

\* The steps of a run after the resolver is made.
ResolverMade == phase \notin {"idle", "start", "catalog", "failed"}

\* C18: once the resolver is made, no step of the run changes an entry of
\* the Catalog, and a token resolves to the same page and anchor before and
\* after every step.
C18_CatalogFixed ==
  [][ResolverMade =>
       /\ resolverMap' = resolverMap
       /\ \A t \in {"runtime:C", "runtime:defines.define1.v1", "prototype:T",
                    "runtime:storage::intro", "runtime:None"} :
            resolve(resolverMap', t) = resolve(resolverMap, t)]_vars

\* A finished run that wrote a page with a link resolved through the Catalog.
C18_Witness ==
  /\ phase = "done"
  /\ mapHas(resolverMap, "runtime:C")
  /\ \E k \in 1..Len(chunksStream) :
       \E j \in 1..Len(chunksStream[k].text) :
         Contains(chunksStream[k].text[j], "[C](../classes/C.md)")

\* The run is about to start without a document, or onto an output
\* directory of the version that exists, without --force.
ConfigurationError ==
  /\ phase = "start"
  /\ \/ ~runtimeObj.present /\ ~prototypeObj.present
     \/ outDisk.exists /\ ~args.force

\* C19: a run without either document, or onto an existing output directory
\* of the version without the overwrite flag, fails with a non-zero exit code
\* and creates, changes and deletes nothing under the output location.
C19_FailsBeforeOutput ==
  [][ConfigurationError =>
       /\ phase' = "failed"
       /\ genExit' # 0
       /\ outDisk' = outDisk
       /\ chunksStream' = chunksStream /\ streamState' = streamState]_vars

\* A run with a document that failed on the existing directory and left the
\* file in it.
C19_Witness ==
  /\ phase = "failed" /\ genExit = 1
  /\ runtimeObj.present /\ ~args.force
  /\ outDisk.exists /\ "old.md" \in DOMAIN outDisk.files
  /\ chunksStream = <<>>

\* The records of the stream of a stage, a kind and a symbol name.
RecordsOf(stage, kind, name) ==
  {k \in 1..Len(chunksStream) :
     /\ chunksStream[k].stage = stage /\ chunksStream[k].kind = kind
     /\ chunksStream[k].name = name}

\* The records of a member of a symbol, with member and anchor the name.
MemberRecordsOf(stage, name, member) ==
  {k \in 1..Len(chunksStream) :
     /\ chunksStream[k].stage = stage /\ chunksStream[k].name = name
     /\ "member" \in DOMAIN chunksStream[k] /\ chunksStream[k].member = member
     /\ "anchor" \in DOMAIN chunksStream[k] /\ chunksStream[k].anchor = member}

\* All records of a symbol that are records of a member.
AllMemberRecordsOf(stage, name) ==
  {k \in 1..Len(chunksStream) :
     /\ chunksStream[k].stage = stage /\ chunksStream[k].name = name
     /\ "member" \in DOMAIN chunksStream[k]}

\* One root record, and one record for each member and no further one.
OneRecordEach(stage, kind, name, members) ==
  /\ Cardinality(RecordsOf(stage, kind, name)) = 1
  /\ \A i \in 1..Len(members) : MemberRecordsOf(stage, name, members[i].name) # {}
  /\ Cardinality(AllMemberRecordsOf(stage, name)) = Len(members)

\* C20: the stream of a finished run holds, for every rendered symbol, one
\* root record and one record for each member (class attribute, class method,
\* prototype or type property, event data field, define value), with member
\* and anchor the name of the member.
C20_RecordPerMember ==
  phase = "done" =>
    /\ runtimeOn =>
         /\ \A i \in 1..Len(runtimeObj.classes) :
              OneRecordEach("runtime", "class", runtimeObj.classes[i].name,
                            runtimeObj.classes[i].attributes
                              \o runtimeObj.classes[i].methods)
         /\ \A i \in 1..Len(runtimeObj.events) :
              OneRecordEach("runtime", "event", runtimeObj.events[i].name,
                            runtimeObj.events[i].data)
         /\ \A i \in 1..Len(runtimeObj.defines) :
              OneRecordEach("runtime", "define", "defines." \o runtimeObj.defines[i].name,
                            runtimeObj.defines[i].values)
    /\ prototypeOn =>
         /\ \A i \in 1..Len(prototypeObj.prototypes) :
              OneRecordEach("prototype", "prototype", prototypeObj.prototypes[i].name,
                            prototypeObj.prototypes[i].properties)
         /\ \A i \in 1..Len(prototypeObj.types) :
              OneRecordEach("prototype", "type", prototypeObj.types[i].name,
                            prototypeObj.types[i].properties)
         /\ \A i \in 1..Len(prototypeObj.defines) :
              OneRecordEach("prototype", "define",
                            "defines." \o prototypeObj.defines[i].name,
                            prototypeObj.defines[i].values)

(***************************************************************************)
(* search and get on chunk sequences that hold undecodable lines.          *)
(***************************************************************************)
InitLines == InitSearch \/ InitGet

NextLines == NextSearch \/ NextGet

SpecLines == InitLines /\ [][NextLines]_vars

\* The sequence with the lines removed that do not decode as chunk records.
Decodable(lines) == SelectSeq(lines, LAMBDA l : l.valid)

\* The hit list of a search that reads the first n of these lines, every one
\* of them a chunk record.
RECURSIVE HitsOfRecords(_, _)
HitsOfRecords(records, n) ==
  IF n = 0 THEN <<>>
  ELSE IF passesFilters(records[n], flags) /\ scoreOf(records[n], Query) > 0
    THEN pushSortTruncate(HitsOfRecords(records, n - 1), hitOf(records[n], Query),
                          flags.limit)
  ELSE HitsOfRecords(records, n - 1)

\* The records of this id, in the order of the sequence.
RecordsWithId(records, id) == SelectSeq(records, LAMBDA r : r.id = id)

\* C21: search and get treat a chunk sequence that holds undecodable lines
\* like the sequence without them: no such line makes the command fail, and
\* the hits, their scores and their order, and the record that get prints,
\* are those of the decodable lines alone.
C21_UndecodableLinesSkipped ==
  /\ (cmd = "search" /\ pc \in {"scan", "done"}) =>
       LET read == Decodable(SubSeq(chunksJsonl, 1, pos))
       IN hits = HitsOfRecords(read, Len(read))
  /\ (cmd = "search" /\ pc = "done") =>
       stdout = HitsOfRecords(Decodable(chunksJsonl), Len(Decodable(chunksJsonl)))
  /\ (cmd = "search" /\ pc = "failed") =>
       (preludeError(flags, entries) # Null \/ trim(positional) = "")
  /\ (cmd = "get" /\ pc = "done") =>
       LET same == RecordsWithId(Decodable(chunksJsonl), trim(positional))
       IN Len(same) >= 1 /\ stdout = <<same[1]>>
  /\ (cmd = "get" /\ pc = "failed" /\ preludeError(flags, entries) = Null
        /\ trim(positional) # "") =>
       /\ RecordsWithId(Decodable(chunksJsonl), trim(positional)) = <<>>
       /\ stderr = <<"Chunk not found">>

\* A search that read an undecodable line before a record and printed the
\* hit of the record.
C21_Witness ==
  /\ cmd = "search" /\ pc = "done"
  /\ Len(chunksJsonl) = 2 /\ ~chunksJsonl[1].valid /\ chunksJsonl[2].valid
  /\ Len(stdout) = 1 /\ stdout[1].id = chunksJsonl[2].id

(***************************************************************************)
(* The manifest of a finished run.                                         *)
(***************************************************************************)
ManifestWritten == phase = "done" /\ "manifest.json" \in DOMAIN outDisk.files

ManifestCounts == outDisk.files["manifest.json"].json.counts

\* The stage is among the stages to generate.
Selected(stage) == args.only = <<>> \/ \E k \in 1..Len(args.only) : args.only[k] = stage

\* The number of symbols of a collection that the run rendered.
RenderedSymbols(stage, obj, collection) ==
  IF obj.present /\ Selected(stage) THEN Len(obj[collection]) ELSE 0

\* The auxiliary pages that the run wrote.
AuxiliaryPagesWritten ==
  {f \in DOMAIN outDisk.files : startsWith(f, "auxiliary/") /\ endsWith(f, ".md")}

\* The counters without the one of the auxiliary pages.
SymbolCountsRight ==
  /\ ManifestCounts.chunks = Len(chunksStream)
  /\ \A collection \in {"classes", "concepts", "events", "defines", "global_functions",
                        "global_objects"} :
       ManifestCounts.runtime[collection]
         = RenderedSymbols("runtime", runtimeObj, collection)
  /\ \A collection \in {"prototypes", "types", "defines"} :
       ManifestCounts.prototype[collection]
         = RenderedSymbols("prototype", prototypeObj, collection)

\* C22: when generation finishes, counts.chunks of the manifest is the number
\* of records appended to the chunk sequence, each runtime and prototype
\* counter is the number of symbols of its collection rendered in this run,
\* and counts.auxiliary.pages is the number of auxiliary pages rendered in
\* this run, for every selection of stages.
C22_ManifestCounts ==
  ManifestWritten =>
    /\ SymbolCountsRight
    /\ ManifestCounts.auxiliary.pages = Cardinality(AuxiliaryPagesWritten)

\* The chunk counter and the symbol counters of a finished run are right.
SymbolCountsHold == ManifestWritten => SymbolCountsRight

\* The auxiliary counter is right whenever the auxiliary stage is selected.
AuxiliaryCountWhenSelected ==
  (ManifestWritten /\ Selected("auxiliary")) =>
    ManifestCounts.auxiliary.pages = Cardinality(AuxiliaryPagesWritten)

(***************************************************************************)
(* The order of the steps of a run.                                        *)
(***************************************************************************)
\* The Catalog with every entry of the auxiliary pages and the two documents.
FullCatalog ==
  catalogOf(outVersionRel, listAuxiliary(auxiliaryDir), runtimeObj, prototypeObj)

\* The step writes a page or appends a chunk.
WritesPageOrChunk ==
  \/ chunksStream' # chunksStream
  \/ \E f \in DOMAIN outDisk'.files :
       /\ endsWith(f, ".md") /\ f \notin {"README.md", "SEARCH.md"}
       /\ (f \notin DOMAIN outDisk.files \/ outDisk'.files[f] # outDisk.files[f])

\* The step writes the manifest.
WritesManifest ==
  /\ "manifest.json" \in DOMAIN outDisk'.files
  /\ "manifest.json" \notin DOMAIN outDisk.files

\* The step reports success.
ReportsSuccess == genStdout' # genStdout

\* C23: in every run the Catalog is complete before a page or a chunk is
\* written (and so before a link is resolved); chunks are appended to the open
\* stream only, none after its close; the stream is closed before the
\* manifest is written; the manifest is written when success is reported;
\* and a run whose stream failed to close reports no success.
C23_StepOrder ==
  [][/\ WritesPageOrChunk =>
          /\ resolverMap = FullCatalog /\ resolverMap' = resolverMap
          /\ streamState = "open" /\ streamState' = "open"
     /\ WritesManifest => streamState = "closed"
     /\ ReportsSuccess =>
          /\ "manifest.json" \in DOMAIN outDisk'.files
          /\ streamState' = "closed" /\ genExit' = 0
     /\ streamState' = "errored" =>
          /\ phase' = "failed" /\ genExit' # 0 /\ genStdout' = <<>>
          /\ "manifest.json" \notin DOMAIN outDisk'.files]_vars

\* A run that appended chunks, closed the stream, wrote the manifest and
\* reported success.
C23_Witness ==
  /\ phase = "done" /\ Len(chunksStream) >= 2 /\ streamState = "closed"
  /\ "manifest.json" \in DOMAIN outDisk.files /\ Len(genStdout) = 1

\* A run that appended chunks and failed to close the stream.
StreamErrored == streamState = "errored" /\ Len(chunksStream) >= 2

(***************************************************************************)
(* search over one record: the count of the occurrences and the snippet.   *)
(***************************************************************************)
MaxText == 4

RECURSIVE Repeat(_, _)
Repeat(piece, n) ==
  IF n = 0 THEN ""
  ELSE IF n = 1 THEN piece
  ELSE Repeat(piece, n \div 2) \o Repeat(piece, n - (n \div 2))

\* Every text of at most MaxText characters over a, A and b.
ShortTexts == {join(t, "") : t \in SeqsUpTo({"a", "A", "b"}, MaxText)}

\* Texts that are longer than the window of a snippet: the query foo far
\* from both ends, at the start, at the end, after a long run of white space,
\* after many paragraph breaks, and not at all.
LongTexts ==
  {Repeat("x", 70) \o "Foo" \o Repeat("y", 130),
   "foo" \o Repeat("y", 130),
   Repeat("x", 70) \o " foo",
   "x" \o Repeat(" ", 70) \o "foo" \o Repeat("y", 70),
   Repeat("x\n\n", 35) \o "foo " \o Repeat("yz ", 45),
   Repeat("x\n\n", 65) \o "foo" \o Repeat("y", 70),
   "  " \o Repeat("x  y\n", 40)}

HitQueries == {"a", "aa", "ab", " AA ", "foo", ""}

HitIds == {"1.0.0/x/y", "1.0.0/x/foo"}

InitHits ==
  /\ GenIdle /\ CliStart /\ ExtractIdle /\ LinkIdle
  /\ cmd = "search"
  /\ flags = NoFlags
  /\ positional \in HitQueries
  /\ entries = OneVersionRoot
  /\ chunksJsonl \in {<<Chunk(id, "runtime", "k", "n", Null, Null, Null, text)>> :
                        id \in HitIds, text \in ShortTexts \cup LongTexts}
  /\ mdFiles = <<>>
  /\ symbols = NoSymbols

SpecHits == InitHits /\ [][NextSearch]_vars

\* A search over the one record has ended.
OneRecordSearched == cmd = "search" /\ pc = "done" /\ Len(chunksJsonl) = 1

\* The positions of h at which n occurs.
Positions(h, n) == {i \in 1..(Len(h) - Len(n) + 1) : SubSeq(h, i, i + Len(n) - 1) = n}

\* C24: the occurrence count of the score is the number of all positions of
\* the lowercased text at which the lowercased query occurs, overlapping
\* occurrences included, and it is 0 exactly when the text does not hold the
\* query.
C24_CountsAllPositions ==
  OneRecordSearched =>
    LET c == chunksJsonl[1]
        n == Cardinality(Positions(toLowerCase(c.text), Query))
        other == IF Contains(toLowerCase(c.id), Query) THEN IdWeight ELSE 0
    IN /\ countOccurrences(toLowerCase(c.text), Query) = n
       /\ IF n = 0 /\ other = 0 THEN stdout = <<>>
          ELSE /\ Len(stdout) = 1
               /\ stdout[1].score = other + TextWeight * Min(OccurrenceCap, n)

\* The count is right for every query that cannot overlap itself, and it is
\* 0 exactly when the text does not hold the query.
CountsDisjointOccurrences ==
  OneRecordSearched =>
    LET text == toLowerCase(chunksJsonl[1].text)
    IN /\ (countOccurrences(text, Query) = 0) = (Positions(text, Query) = {})
       /\ Query \in {"a", "ab", "foo"} =>
            countOccurrences(text, Query) = Cardinality(Positions(text, Query))

\* The text with every run of white space collapsed to one space, and that
\* text without the white space at its ends.
Collapsed(text) == collapseWs(text, FALSE)

Clean(text) == trim(Collapsed(text))

\* The snippet is a window of the clean text around the first occurrence of
\* the query in it, with an ellipsis where the window is cut.
WindowAround(snippet, clean, q) ==
  LET p == FirstAt(toLowerCase(clean), q) - 1
  IN \E start \in Max(0, p - SnippetBefore)..p :
       \E end \in (p + Len(q))..Min(Len(clean), p + Len(q) + SnippetAfter) :
         snippet = (IF start > 0 THEN Ellipsis ELSE "")
                     \o SubSeq(clean, start + 1, end)
                     \o (IF end < Len(clean) THEN Ellipsis ELSE "")

\* C25: the snippet of a hit whose text holds the query is the window of the
\* collapsed text that starts at most 60 characters before the first
\* occurrence and ends at most queryLength + 120 characters after its start,
\* so it holds the occurrence, with a leading ellipsis exactly when the window
\* does not start at the start of the text and a trailing one exactly when it
\* does not reach the end; the snippet of a hit whose text does not hold the
\* query is the first 140 characters of the collapsed text.
C25_SnippetWindow ==
  (OneRecordSearched /\ Len(stdout) = 1) =>
    LET text == chunksJsonl[1].text
    IN IF Contains(toLowerCase(text), Query)
         THEN WindowAround(stdout[1].snippet, Clean(text), Query)
       ELSE stdout[1].snippet
              = SubSeq(Collapsed(text), 1, Min(SnippetFallback, Len(Collapsed(text))))

\* The snippet is that window whenever collapsing removes nothing before the
\* occurrence, and the snippet of a text without the query is the fallback.
SnippetWindowWithoutDrift ==
  (OneRecordSearched /\ Len(stdout) = 1) =>
    LET text == chunksJsonl[1].text
    IN IF ~Contains(toLowerCase(text), Query)
         THEN stdout[1].snippet
                = SubSeq(Collapsed(text), 1, Min(SnippetFallback, Len(Collapsed(text))))
       ELSE FirstAt(toLowerCase(Clean(text)), Query) = FirstAt(toLowerCase(text), Query)
              => WindowAround(stdout[1].snippet, Clean(text), Query)

\* A snippet cut at both ends and a snippet of the first 140 characters.
SnippetCases ==
  /\ OneRecordSearched /\ Len(stdout) = 1
  /\ \/ /\ Len(stdout[1].snippet) = SnippetBefore + 3 + SnippetAfter + 2
        /\ Contains(stdout[1].snippet, "Foo")
     \/ /\ ~Contains(toLowerCase(chunksJsonl[1].text), Query)
        /\ Len(stdout[1].snippet) = SnippetFallback

(***************************************************************************)
(* The site builder (src/unnamed/part_004): mdToHtml.  The pages of the    *)
(* model hold no link and no code span, which is all that the two          *)
(* replacements of a paragraph or a list item change.                      *)
(***************************************************************************)
RECURSIVE escapeHtml(_)
escapeHtml(s) ==
  IF s = "" THEN ""
  ELSE (CASE Head(s) = "&" -> "&amp;"
          [] Head(s) = "<" -> "&lt;"
          [] Head(s) = ">" -> "&gt;"
          [] Head(s) = "\"" -> "&quot;"
          [] Head(s) = "'" -> "&#39;"
          [] OTHER -> Head(s)) \o escapeHtml(Tail(s))

\* .replace(/[^a-z0-9\s-]/g, "")
RECURSIVE keepIdChars(_)
keepIdChars(s) ==
  IF s = "" THEN ""
  ELSE (IF \/ Head(s) \in {LowerMap[u] : u \in DOMAIN LowerMap}
           \/ IsDigit(Head(s)) \/ IsWs(Head(s)) \/ Head(s) = "-"
          THEN Head(s) ELSE "") \o keepIdChars(Tail(s))

\* .replace(/\s+/g, "-")
RECURSIVE spacesToHyphens(_)
spacesToHyphens(s) ==
  IF s = "" THEN ""
  ELSE (IF Head(s) = " " THEN "-" ELSE Head(s)) \o spacesToHyphens(Tail(s))

\* The id of a heading: lower case, the characters of [a-z0-9\s-] only,
\* trimmed, every run of white space one hyphen.
headingId(text) ==
  spacesToHyphens(collapseWs(trim(keepIdChars(toLowerCase(text))), FALSE))

\* /^^^^(.*)$/ : the line opens or closes a fence (three backquotes).
isFence(line) == startsWith(line, "^^^")

\* /^\s*-\s+(.*)$/
isListItem(line) ==
  LET t == trimStart(line)
  IN Len(t) >= 2 /\ Head(t) = "-" /\ IsWs(Char(t, 2))

listItemText(line) == trim(Tail(trimStart(line)))

\* flushParagraph
flushParagraph(out, buf) ==
  IF trim(join(buf, " ")) = "" THEN out
  ELSE Append(out, "<p>" \o trim(join(buf, " ")) \o "</p>")

\* flushList
flushList(out, inList) == IF inList THEN Append(out, "</ul>") ELSE out

headingElement(level, id, text) ==
  "<h" \o ToString(level) \o " id=\"" \o escapeHtml(id) \o "\">" \o escapeHtml(text)
    \o "</h" \o ToString(level) \o ">"

\* if (!md.startsWith("---\n")) return md; ... md.slice(end + 5)
stripFrontmatter(md) ==
  IF ~startsWith(md, "---\n") THEN md
  ELSE IF indexOfFrom(md, "\n---\n", 5) = 0 THEN md
  ELSE SubSeq(md, indexOfFrom(md, "\n---\n", 5) + 5, Len(md))

\* The state of the loop of mdToHtml before its first line.
MdStart ==
  [inCode |-> FALSE, codeLang |-> "", codeBuf |-> <<>>, inList |-> FALSE,
   paraBuf |-> <<>>, out |-> <<>>]

\* One iteration of the loop of mdToHtml.
mdLine(st, line) ==
  IF isFence(line)
    THEN IF ~st.inCode
           THEN [inCode |-> TRUE, codeLang |-> trim(SubSeq(line, 4, Len(line))),
                 codeBuf |-> <<>>, inList |-> FALSE, paraBuf |-> <<>>,
                 out |-> flushList(flushParagraph(st.out, st.paraBuf), st.inList)]
         ELSE [st EXCEPT
                 !.out = Append(@, "<pre><code"
                                     \o (IF st.codeLang # ""
                                           THEN " class=\"language-"
                                                  \o escapeHtml(st.codeLang) \o "\""
                                         ELSE "")
                                     \o ">" \o escapeHtml(join(st.codeBuf, "\n"))
                                     \o "</code></pre>"),
                 !.inCode = FALSE, !.codeLang = "", !.codeBuf = <<>>]
  ELSE IF st.inCode THEN [st EXCEPT !.codeBuf = Append(@, line)]
  ELSE IF headingPrefixLevel(line) > 0
    THEN [st EXCEPT
            !.out = Append(flushList(flushParagraph(st.out, st.paraBuf), st.inList),
                           headingElement(headingPrefixLevel(line),
                                          headingId(headingText(line)),
                                          headingText(line))),
            !.paraBuf = <<>>, !.inList = FALSE]
  ELSE IF isListItem(line)
    THEN [st EXCEPT
            !.out = Append(IF st.inList THEN flushParagraph(st.out, st.paraBuf)
                           ELSE Append(flushParagraph(st.out, st.paraBuf), "<ul>"),
                           "<li>" \o listItemText(line) \o "</li>"),
            !.paraBuf = <<>>, !.inList = TRUE]
  ELSE IF trim(line) = ""
    THEN [st EXCEPT
            !.out = flushList(flushParagraph(st.out, st.paraBuf), st.inList),
            !.paraBuf = <<>>, !.inList = FALSE]
  ELSE [st EXCEPT !.paraBuf = Append(@, trim(line))]

RECURSIVE mdLines(_, _, _)
mdLines(lines, i, st) ==
  IF i > Len(lines) THEN st ELSE mdLines(lines, i + 1, mdLine(st, lines[i]))

\* The lines of the model's pages end in "\n", never in "\r\n".
mdToHtml(md) ==
  LET finish(st) == join(flushList(flushParagraph(st.out, st.paraBuf), st.inList), "\n")
  IN finish(mdLines(split(md, "\n"), 1, MdStart))

\* The body of the HTML page of one Markdown page (main, lines 220-222).
MdToHtml ==
  /\ htmlOut = Null
  /\ htmlOut' = mdToHtml(stripFrontmatter(extractMarkdown))
  /\ UNCHANGED <<extractMarkdown, extractAnchor, slugCounts, extractOut>>
  /\ UNCHANGED <<genVars, cliVars, linkVars>>

HtmlPageLines == {"## on_tick", "# Foo", "## foo", "## a.b  c", "text", "^^^", "- x"}

HtmlPages ==
  {join(ls, "\n") : ls \in SeqsUpTo(HtmlPageLines, MaxLines)}
    \cup {"---\nname: Foo\n---\n# Foo\n\ntext & <more>\n"}

InitHtml ==
  /\ GenIdle /\ CliIdle /\ LinkIdle
  /\ extractMarkdown \in HtmlPages
  /\ extractAnchor = ""
  /\ slugCounts = <<>>
  /\ extractOut = <<>>
  /\ htmlOut = Null

NextHtml == MdToHtml

SpecHtml == InitHtml /\ [][NextHtml]_vars

\* The heading elements of the HTML page, in their order.
HeadingElements == SelectSeq(split(htmlOut, "\n"), LAMBDA l : startsWith(l, "<h"))

\* The number of the heading of line i among the headings of the page.
HeadingNumber(i) == Cardinality({j \in 1..i : IsHeading(j)})

\* C26: the id that mdToHtml gives a heading is the slug that the retrieval
\* engine computes for the same heading of the same page, for every heading
\* text and for repeated headings.
C26_HeadingIdIsSlug ==
  htmlOut # Null =>
    \A i \in 1..Len(Lines) :
      IsHeading(i) =>
        /\ Len(HeadingElements) >= HeadingNumber(i)
        /\ HeadingElements[HeadingNumber(i)]
             = headingElement(headingLevel(Lines[i]), SlugOfHeading(i),
                              headingText(Lines[i]))

\* The two agree on a page without a fence for the first heading of a slug
\* whose text has no underscore.
FirstPlainHeadingsAgree ==
  (htmlOut # Null /\ \A j \in 1..Len(Lines) : ~isFence(Lines[j])) =>
    \A i \in 1..Len(Lines) :
      (/\ IsHeading(i)
       /\ ~Contains(Lines[i], "_")
       /\ SlugOfHeading(i) = githubSlugBase(headingText(Lines[i]))) =>
        /\ Len(HeadingElements) >= HeadingNumber(i)
        /\ HeadingElements[HeadingNumber(i)]
             = headingElement(headingLevel(Lines[i]), SlugOfHeading(i),
                              headingText(Lines[i]))

\* A page with a front matter, rendered with its heading, a paragraph and
\* the escapes.
HtmlRendered == htmlOut = "<h1 id=\"foo\">Foo</h1>\n<p>text & <more></p>"

(***************************************************************************)
(* tools/search.ts, parseArgs and the head of main(): the argument list    *)
(* becomes a command, the positionals and a map of flags.  A flag without  *)
(* value maps to SetTrue, the source's `true`.                             *)
(***************************************************************************)
valueFlags == {"version", "root", "limit", "stage", "kind", "name", "member"}

SetTrue == "<true>"

Commands == {"search", "get", "open", "versions"}

\* Map.set and Map.get on the flags.
flagSet(m, key, value) ==
  [k \in (DOMAIN m) \cup {key} |-> IF k = key THEN value ELSE m[k]]

flagGet(m, key) == IF key \in DOMAIN m THEN m[key] ELSE Null

\* The loop of parseArgs from argument i on.
RECURSIVE parseLoop(_, _, _, _, _)
parseLoop(av, i, endOfFlags, positionals, fl) ==
  IF i > Len(av)
    THEN [state |-> "ok", cmd |-> Null, positionals |-> positionals, flags |-> fl,
          endOfFlags |-> endOfFlags, error |-> Null]
  ELSE IF av[i] = "--" THEN parseLoop(av, i + 1, TRUE, positionals, fl)
  ELSE IF av[i] = "--help" \/ av[i] = "-h"
    THEN parseLoop(av, i + 1, endOfFlags, positionals, flagSet(fl, "help", SetTrue))
  ELSE IF ~endOfFlags /\ startsWith(av[i], "--")
    THEN IF SubSeq(av[i], 3, Len(av[i])) \in valueFlags
           THEN IF i + 1 > Len(av)
                  THEN [state |-> "threw", cmd |-> Null, positionals |-> positionals,
                        flags |-> fl, endOfFlags |-> endOfFlags,
                        error |-> "Missing value for " \o av[i]]
                ELSE parseLoop(av, i + 2, endOfFlags, positionals,
                               flagSet(fl, SubSeq(av[i], 3, Len(av[i])), av[i + 1]))
         ELSE parseLoop(av, i + 1, endOfFlags, positionals,
                        flagSet(fl, SubSeq(av[i], 3, Len(av[i])), SetTrue))
  ELSE parseLoop(av, i + 1, endOfFlags, Append(positionals, av[i]), fl)

\* const cmd = positionals.shift()
shiftCmd(r) ==
  IF r.state = "threw" \/ r.positionals = <<>> THEN r
  ELSE [r EXCEPT !.cmd = Head(r.positionals), !.positionals = Tail(r.positionals)]

parseArgs(av) == shiftCmd(parseLoop(av, 1, FALSE, <<>>, <<>>))

\* main() calls parseArgs; what it throws is printed by main().catch.
ParseArgs ==
  /\ pc = "parse"
  /\ parsed' = parseArgs(argv)
  /\ IF parseArgs(argv).state = "threw" THEN Fail(parseArgs(argv).error)
     ELSE /\ pc' = "parsed"
          /\ UNCHANGED <<pos, hits, stdout, stderr, exitCode>>
  /\ UNCHANGED <<argv, cmd, flags, positional, entries, chunksJsonl, mdFiles, symbols>>
  /\ UNCHANGED <<genVars, extractVars, linkVars>>

\* The head of main(): help without a command or with the help flag, an
\* error for an unknown command, else the command is taken up.
Dispatch ==
  /\ pc = "parsed"
  /\ IF parsed.cmd = Null \/ flagGet(parsed.flags, "help") # Null
       THEN /\ pc' = "helped"
            /\ stdout' = Append(stdout, "Usage:")
            /\ UNCHANGED <<cmd, pos, hits, stderr, exitCode>>
     ELSE IF parsed.cmd \notin Commands
       THEN /\ Fail("Unknown command: " \o parsed.cmd)
            /\ UNCHANGED cmd
     ELSE /\ pc' = "dispatched"
          /\ cmd' = parsed.cmd
          /\ UNCHANGED <<pos, hits, stdout, stderr, exitCode>>
  /\ UNCHANGED <<argv, parsed, flags, positional, entries, chunksJsonl, mdFiles, symbols>>
  /\ UNCHANGED <<genVars, extractVars, linkVars>>

MaxArgs == 4

Arguments == {"search", "foo", "--", "--name", "--json", "--help", "-h"}

ArgLists == UNION {[1..n -> Arguments] : n \in 0..MaxArgs}

InitArgs ==
  /\ GenIdle /\ ExtractIdle /\ LinkIdle
  /\ argv \in ArgLists
  /\ parsed = NotParsed
  /\ cmd = Null /\ flags = NoFlags /\ positional = "" /\ entries = <<>>
  /\ chunksJsonl = <<>> /\ mdFiles = <<>> /\ symbols = NoSymbols /\ pc = "parse"
  /\ pos = 0 /\ hits = <<>> /\ stdout = <<>> /\ stderr = <<>> /\ exitCode = 0

NextArgs == ParseArgs \/ Dispatch

SpecArgs == InitArgs /\ [][NextArgs]_vars

\* The command and the positionals of a result, in the order of the arguments.
allPositionals(r) == IF r.cmd = Null THEN r.positionals ELSE <<r.cmd>> \o r.positionals

Before(m) == parseArgs(SubSeq(argv, 1, m - 1))

After(m) == SubSeq(argv, m + 1, Len(argv))

\* The arguments m that are an end-of-flags marker: a "--" that is not the
\* value of a flag before it.
IsMarker(m) == argv[m] = "--" /\ Before(m).state = "ok"

\* The arguments i before any marker that are a value flag.
IsValueFlag(i) ==
  /\ startsWith(argv[i], "--") /\ SubSeq(argv[i], 3, Len(argv[i])) \in valueFlags
  /\ Before(i).state = "ok" /\ ~Before(i).endOfFlags

RemainingArePositionals ==
  \A m \in 1..Len(argv) :
    IsMarker(m) =>
      /\ parsed.state = "ok"
      /\ parsed.flags = Before(m).flags
      /\ allPositionals(parsed) = allPositionals(Before(m)) \o After(m)

ValueFlagTakesNext ==
  \A i \in 1..Len(argv) :
    IsValueFlag(i) =>
      IF i = Len(argv)
        THEN parsed.state = "threw" /\ parsed.error = "Missing value for " \o argv[i]
             /\ pc = "failed" /\ exitCode = 1
      ELSE /\ parseArgs(SubSeq(argv, 1, i + 1)).state = "ok"
           /\ parseArgs(SubSeq(argv, 1, i + 1)).flags
                = flagSet(Before(i).flags, SubSeq(argv[i], 3, Len(argv[i])), argv[i + 1])
           /\ allPositionals(parseArgs(SubSeq(argv, 1, i + 1))) = allPositionals(Before(i))
           /\ i + 1 = Len(argv) => parsed = parseArgs(SubSeq(argv, 1, i + 1))

\* C27: once parseArgs has seen the end-of-flags marker, every remaining
\* argument is a positional, in its order, and sets no flag, whatever it looks
\* like; before the marker a value flag takes exactly the next argument and
\* parseArgs fails when there is none.
C27_AfterMarkerAllPositional ==
  parsed.state # "none" => RemainingArePositionals /\ ValueFlagTakesNext

\* The value-flag half of C27 alone.
ValueFlagHalfHolds == parsed.state # "none" => ValueFlagTakesNext

\* The marker half of C27 for remaining arguments other than "--", "--help"
\* and "-h".
MarkerHalfForOtherArguments ==
  (parsed.state # "none"
   /\ \A m \in 1..Len(argv) :
        IsMarker(m) => \A j \in m + 1..Len(argv) : argv[j] \notin {"--", "--help", "-h"})
    => RemainingArePositionals

\* "search -- --help" has printed the help text.
HelpAfterMarker ==
  argv = <<"search", "--", "--help">> /\ pc = "helped"

(***************************************************************************)
(* Runs of the generator on documents in which a class, a concept and an   *)
(* event, a prototype and a type, or a class and an auxiliary page may     *)
(* share a name.                                                           *)
(***************************************************************************)
PageDocs ==
  {[present |-> TRUE, application_version |-> "2.0.72",
    classes |-> <<[RunClasses(1)[1] EXCEPT !.name = class]>>,
    concepts |-> <<[Concepts(1)[1] EXCEPT !.name = concept]>>,
    events |-> <<[Events(1)[1] EXCEPT !.name = event]>>,
    defines |-> Defines(1), global_functions |-> GlobalFunctions(1),
    global_objects |-> GlobalObjects(1)] :
      class \in {"C", "storage"}, concept \in {"C", "Concept1"},
      event \in {"C", "on_event1"}}

PagePrototypeDocs ==
  {[present |-> TRUE, application_version |-> "2.0.72",
    prototypes |-> <<[name |-> "P", description |-> "A prototype.", parent |-> "Base",
                      properties |-> <<Property("type", <<>>)>>]>>,
    types |-> <<[name |-> type, description |-> "A type.", hasType |-> TRUE,
                 type |-> [complex_type |-> "struct"],
                 properties |-> <<Property("kind", <<"An example.">>)>>]>>,
    defines |-> Defines(1)] :
      type \in {"P", "T"}}

InitPages ==
  /\ CliIdle /\ ExtractIdle /\ LinkIdle
  /\ args \in GenArgs
  /\ runtimeObj \in {Absent} \cup PageDocs
  /\ prototypeObj \in {Absent} \cup PagePrototypeDocs
  /\ auxiliaryDir \in AuxiliaryDirs
  /\ outDisk = EmptyDisk
  /\ auxiliaryBasenames = <<>> /\ phase = "start" /\ idx = 0 /\ resolverMap = <<>>
  /\ chunksStream = <<>> /\ streamState = "none" /\ stats = Null
  /\ genStdout = <<>> /\ genStderr = <<>> /\ genExit = 0

SpecPages == InitPages /\ [][NextGen]_vars

\* The file at the path is a page of the stage, the kind and the name.
IsPageOf(path, stage, kind, name) ==
  /\ path \in DOMAIN outDisk.files
  /\ Len(outDisk.files[path]) >= 7
  /\ outDisk.files[path][3] = "stage: " \o stage
  /\ outDisk.files[path][4] = "kind: " \o kind
  /\ outDisk.files[path][5] = "name: " \o name

\* Every symbol of the collection has its page in the directory of the
\* collection.
OwnPages(obj, stage, collection, kind) ==
  (obj.present /\ Selected(stage)) =>
    \A i \in 1..Len(obj[collection]) :
      IsPageOf(stage \o "/" \o collection \o "/" \o obj[collection][i].name \o ".md",
               stage, kind, obj[collection][i].name)

AllOwnPages ==
  /\ OwnPages(runtimeObj, "runtime", "classes", "class")
  /\ OwnPages(runtimeObj, "runtime", "concepts", "concept")
  /\ OwnPages(runtimeObj, "runtime", "events", "event")
  /\ OwnPages(runtimeObj, "runtime", "defines", "define")
  /\ OwnPages(runtimeObj, "runtime", "global_functions", "global_function")
  /\ OwnPages(runtimeObj, "runtime", "global_objects", "global_object")
  /\ OwnPages(prototypeObj, "prototype", "prototypes", "prototype")
  /\ OwnPages(prototypeObj, "prototype", "types", "type")
  /\ OwnPages(prototypeObj, "prototype", "defines", "define")
  /\ Selected("auxiliary") =>
       \A i \in 1..Len(auxiliaryBasenames) :
         IsPageOf("auxiliary/" \o auxiliaryBasenames[i] \o ".md", "auxiliary", "auxiliary",
                  auxiliaryBasenames[i])

\* C28: when the run has finished, every symbol it rendered has its page at
\* the path of its own collection, and so no page was overwritten by the page of
\* another symbol, also when symbols of different collections of one stage, or
\* a symbol and an auxiliary page, share a name.
C28_OwnPagePaths == ManifestWritten => AllOwnPages

\* Names shared by collections that share a key of the resolver map.
NamesOf(obj, collection) ==
  IF obj.present THEN {obj[collection][i].name : i \in 1..Len(obj[collection])} ELSE {}

SharedNames ==
  \/ \E a, b \in {"classes", "concepts", "events", "global_functions", "global_objects"} :
       a # b /\ NamesOf(runtimeObj, a) \cap NamesOf(runtimeObj, b) # {}
  \/ NamesOf(prototypeObj, "prototypes") \cap NamesOf(prototypeObj, "types") # {}

\* C28 holds on documents without such a name, a symbol with the name of an
\* auxiliary page included.
OwnPagesWithoutSharedNames == (ManifestWritten /\ ~SharedNames) => AllOwnPages

ClassNamedAsAuxiliaryPage ==
  /\ ManifestWritten /\ ~SharedNames /\ args.only = <<>>
  /\ runtimeObj.present /\ NamesOf(runtimeObj, "classes") = {"storage"}
  /\ Len(auxiliaryBasenames) = 1 /\ auxiliaryBasenames[1] = "storage"

(***************************************************************************)
(* extractMarkdownSectionByAnchor with the slug of a heading of the page,  *)
(* on pages whose headings repeat or spell the slug of another heading.    *)
(***************************************************************************)
SlugLines == {"# foo", "## foo", "## foo-1", "### Foo", "text"}

SlugAnchors == {"foo", "foo-1", "foo-2", "foo-1-1"}

InitSlugs ==
  /\ GenIdle /\ CliIdle /\ LinkIdle
  /\ extractMarkdown \in {join(ls, "\n") : ls \in SeqsUpTo(SlugLines, MaxLines)}
  /\ extractAnchor \in SlugAnchors
  /\ slugCounts = <<>>
  /\ extractOut = <<>>
  /\ htmlOut = Null

SpecSlugs == InitSlugs /\ [][NextExtract]_vars

\* The section that starts at heading i, with a line end.
SectionAt(i) ==
  LET later == {j \in (i + 1)..Len(Lines) : EndsLevel(j, headingLevel(Lines[i]))}
      end == IF later = {} THEN Len(Lines) + 1
             ELSE CHOOSE j \in later : \A m \in later : j <= m
  IN trimEnd(join(SubSeq(Lines, i, end - 1), "\n")) \o "\n"

\* The anchor is the slug of heading i, and the call stopped at heading i and
\* returned its section.
ReachedBySlug(i) ==
  /\ scanHeadings(Lines, trim(extractAnchor), 1, <<>>).startIdx = i
  /\ extractOut[1] = SectionAt(i)

\* C29: every heading with a non-empty slug is reachable by that slug:
\* extraction with the slug of heading h returns the section that starts at h.
C29_EverySlugReachable ==
  Len(extractOut) >= 1 =>
    \A i \in 1..Len(Lines) :
      (IsHeading(i) /\ SlugOfHeading(i) # "" /\ SlugOfHeading(i) = extractAnchor)
        => ReachedBySlug(i)

\* No earlier heading has the slug or the text.
FirstOfItsSlug(i) ==
  \A j \in 1..(i - 1) :
    IsHeading(j) =>
      SlugOfHeading(j) # SlugOfHeading(i) /\ headingText(Lines[j]) # SlugOfHeading(i)

\* C29 for the headings whose slug no earlier heading has or spells.
UnambiguousSlugsReachable ==
  Len(extractOut) >= 1 =>
    \A i \in 1..Len(Lines) :
      (IsHeading(i) /\ SlugOfHeading(i) # "" /\ SlugOfHeading(i) = extractAnchor
       /\ FirstOfItsSlug(i))
        => ReachedBySlug(i)

\* The slug foo-1 of the third heading returned the section of the second.
SlugAnswersForTwo ==
  /\ extractMarkdown = "# foo\n## foo\n## foo-1"
  /\ extractAnchor = "foo-1"
  /\ extractOut = <<"## foo\n">>

(***************************************************************************)
(* open on targets, symbols and chunks whose page path holds "." and ".."  *)
(* segments, with a file beside the version directory.                     *)
(***************************************************************************)
SecretPath == "../secret.md"

SecretPage == "# Secret\n\nNot a page of this version.\n"

PathLines ==
  {Chunk("1.0.0/runtime/class/Foo", "runtime", "class", "Foo", Null, FooPath, Null,
         "# Foo\n\nDesc.\n"),
   Chunk("1.0.0/runtime/class/Out", "runtime", "class", "Out", Null,
         "runtime/../../secret.md", Null, "# Out\n")}

PathSymbols ==
  [exists |-> TRUE,
   entries |-> [key \in {SymbolKey(c) : c \in PathLines} |->
                  SymbolEntry(CHOOSE c \in PathLines : SymbolKey(c) = key)]]

PathTargets ==
  {c.id : c \in PathLines}
    \cup DOMAIN PathSymbols.entries
    \cup {FooPath, "./runtime//classes/Foo.md#Foo", "runtime/classes/../classes/Foo.md",
          "runtime/classes/Foo.md/", "runtime/classes/", "#Foo", SecretPath,
          "runtime/../../secret.md", "../secret.md#Secret", "../1.0.1/Foo.md"}

InitPaths ==
  /\ GenIdle /\ CliStart /\ ExtractIdle /\ LinkIdle
  /\ cmd = "open"
  /\ flags = NoFlags
  /\ positional \in PathTargets
  /\ entries = OneVersionRoot
  /\ chunksJsonl \in SeqsUpTo(PathLines, MaxChunks)
  /\ mdFiles \in {[path \in {FooPath} |-> FooPage],
                  [path \in {FooPath, SecretPath} |->
                     IF path = FooPath THEN FooPage ELSE SecretPage]}
  /\ symbols \in {NoSymbols, PathSymbols}

SpecPaths == InitPaths /\ [][NextOpen]_vars

\* What open prints when it reads the file beside the version directory.
PrintsSecret ==
  pc = "done" /\ stdout \in {<<SecretPage>>, <<"# Secret\n">>}

\* C30: open reads and prints no file outside the selected version
\* directory, whatever the target, targets with ".." segments included.
C30_OpenStaysInVersionDir == ~PrintsSecret

\* The page paths that open may take from the target, a symbol or a chunk.
PathsOfTarget ==
  {parseRelPathAndAnchor(trim(positional)).relPath}
    \cup (IF symbols.exists
            THEN {symbols.entries[k].relPath : k \in DOMAIN symbols.entries} ELSE {})
    \cup {chunksJsonl[i].relPath : i \in 1..Len(chunksJsonl)}

\* C30 for page paths without a ".." segment.
StaysInsideWithoutDotDot ==
  (\A p \in PathsOfTarget : ~includes(p, "..")) => ~PrintsSecret

\* A target with "." and ".." segments that stays inside has printed the page.
DottedPathInside ==
  /\ positional = "runtime/classes/../classes/Foo.md"
  /\ pc = "done" /\ stdout = <<FooPage>>
====
